---------------------------- MODULE Spec2Model ----------------------------
(* A model of xmlpicker: the path selector (PathSelector / Matches), the   *)
(* node tree (Node, Depth) and the streaming parser (Parser.Next, push,    *)
(* pop) that yields one retained subtree per selected element.             *)
(*                                                                         *)
(* Strings are sequences of one-character strings, so that trimming and    *)
(* splitting are computed the way the Go code computes them.               *)
EXTENDS Integers, Sequences, FiniteSets, TLC

VARIABLES
    path,        \* selector pattern handed to PathSelector
    selector,    \* compiled pathSelector (reversed list of segments)
    matched,     \* result of the last selector.Matches call
    pc,          \* where the caller stands
    nodes,       \* the heap of Node values, indexed by node id (1 = root sentinel)
    node,        \* Parser.node / the node handed to Matches; NIL (0) is Go's nil
    NSFlag,      \* Parser.NSFlag
    MaxDepth,    \* Parser.MaxDepth
    MaxChildren, \* Parser.MaxChildren
    MaxTokens,   \* Parser.MaxTokens
    tokenCount,  \* Parser.tokenCount
    decoder,     \* the xml.Decoder: its element stack and its sticky error
    ret,         \* what the last call of Next returned: [node, err]
    yielded,     \* history: the nodes Next has returned, in order
    trace,       \* history: the tokens consumed, each with the open element
    closed,      \* history: the elements whose end tag has been consumed
    lookup,      \* what the caller's last LookupPrefix call was given and returned
    hasNS,       \* XMLExporter.hasNS
    Encoder,     \* XMLExporter.Encoder: its open tags and the tokens it has written
    exported,    \* what the caller's last exporter call was given and returned
    mapped       \* what the caller's last SimpleMapper.FromNode call returned

parser == <<NSFlag, MaxDepth, MaxChildren, MaxTokens, tokenCount, decoder,
            ret, yielded, trace, closed, lookup>>
exporter == <<hasNS, Encoder, exported>>
vars == <<path, selector, matched, pc, nodes, node, parser, exporter, mapped>>

-----------------------------------------------------------------------------
(* Bounds *)

MaxPatLen == 4      \* longest selector pattern, in characters
MaxChain == 3       \* deepest ancestor chain handed to Matches
MaxDoc == 5         \* most tokens a document delivers
DepthCap == 2       \* the MaxDepth the parser is configured with
ChildrenCap == 2    \* the MaxChildren the parser is configured with

-----------------------------------------------------------------------------
(* Strings *)

NIL == 0
EMPTY == << >>
SLASH == <<"/">>
STAR == <<"*">>

\* the characters strings.TrimSpace removes (those the model draws)
WhiteSpace == {" ", "\n"}

Seqs(S, n) == UNION {[1..k -> S] : k \in 0..n}

RECURSIVE TrimLeft(_)
TrimLeft(s) ==
    IF s # EMPTY /\ Head(s) \in WhiteSpace THEN TrimLeft(Tail(s)) ELSE s

RECURSIVE TrimRight(_)
TrimRight(s) ==
    IF s # EMPTY /\ s[Len(s)] \in WhiteSpace
    THEN TrimRight(SubSeq(s, 1, Len(s) - 1)) ELSE s

\* TrimSpace trimming the front only
TrimSpaceFront(s) == TrimLeft(s)

\* strings.TrimSpace
TrimSpace(s) == TrimRight(TrimLeft(s))

\* strings.Split(s, "/"): n separators give n+1 parts, empty parts kept
RECURSIVE Split(_)
Split(s) ==
    IF \A i \in 1..Len(s) : s[i] # "/" THEN <<s>>
    ELSE LET k == CHOOSE i \in 1..Len(s) :
                     s[i] = "/" /\ \A j \in 1..(i - 1) : s[j] # "/"
         IN <<SubSeq(s, 1, k - 1)>> \o Split(SubSeq(s, k + 1, Len(s)))

Reverse(s) == [i \in 1..Len(s) |-> s[Len(s) + 1 - i]]

-----------------------------------------------------------------------------
(* Node *)

Name(space, local) == [Space |-> space, Local |-> local]
StartElementOf(name, attr) == [Name |-> name, Attr |-> attr]

\* a Go slice of child ids: the nil slice, or a made one holding list
NoChildren == [nil |-> TRUE, list |-> << >>]
MakeChildren == [nil |-> FALSE, list |-> << >>]
\* append putting the new child first
PrependChild(c, id) == [nil |-> FALSE, list |-> <<id>> \o c.list]

AppendChild(c, id) == [nil |-> FALSE, list |-> Append(c.list, id)]

\* a Go map prefix -> URI: the nil map, or a made one holding map
NoNamespaces == [nil |-> TRUE, map |-> << >>]
MakeNamespaces == [nil |-> FALSE, map |-> << >>]

NewNode(element, ns, parent) ==
    [StartElement |-> element, Parent |-> parent,
     Namespaces |-> ns, Children |-> NoChildren]

\* &Node{}: the root sentinel NewParser creates
Sentinel == NewNode(StartElementOf(Name(EMPTY, EMPTY), << >>), NoNamespaces, NIL)

\* Depth counting the root sentinel as an element
RECURSIVE DepthWithSentinel(_, _)
DepthWithSentinel(heap, n) ==
    IF n # NIL THEN 1 + DepthWithSentinel(heap, heap[n].Parent) ELSE 0

RECURSIVE Depth(_, _)
Depth(heap, n) ==
    IF n # NIL /\ heap[n].Parent # NIL THEN 1 + Depth(heap, heap[n].Parent) ELSE 0

\* LookupPrefix asking the ancestors before the node itself
RECURSIVE LookupPrefixFarthest(_, _, _)
LookupPrefixFarthest(heap, n, prefix) ==
    IF n = NIL THEN [ns |-> prefix, ok |-> FALSE]
    ELSE LET above == LookupPrefixFarthest(heap, heap[n].Parent, prefix)
         IN IF above.ok THEN above
            ELSE IF prefix \in DOMAIN heap[n].Namespaces.map
            THEN [ns |-> heap[n].Namespaces.map[prefix], ok |-> TRUE]
            ELSE above

\* Node.LookupPrefix: the binding of prefix nearest to n on its ancestor chain
RECURSIVE LookupPrefix(_, _, _)
LookupPrefix(heap, n, prefix) ==
    IF n = NIL THEN [ns |-> prefix, ok |-> FALSE]
    ELSE IF prefix \in DOMAIN heap[n].Namespaces.map
    THEN [ns |-> heap[n].Namespaces.map[prefix], ok |-> TRUE]
    ELSE LookupPrefix(heap, heap[n].Parent, prefix)

\* no LookupPrefix call made on the current tree
NoLookup == [at |-> NIL, prefix |-> EMPTY, ns |-> EMPTY, ok |-> FALSE]

\* no exporter call made on the current tree, and the encoder as created
NoExport ==
    [call |-> "none", node |-> NIL, path |-> FALSE, err |-> "nil",
     prefix |-> EMPTY, at |-> NIL]
NewEncoder == [tags |-> << >>, out |-> << >>]

\* no FromNode call made on the current tree
NoMap == [node |-> NIL, out |-> << >>, panic |-> FALSE]

-----------------------------------------------------------------------------
(* Path selector *)

\* PathSelector without the final reversal of the parts
PathSelectorUnreversed(p) ==
    LET trimmed == TrimSpace(p)
        pth == IF trimmed = EMPTY THEN SLASH ELSE trimmed
        split == Split(pth)
        parts == [i \in 1..Len(split) |-> TrimSpace(split[i])]
    IN [i \in 1..Len(parts) |->
            IF i # 1 /\ parts[i] = EMPTY THEN STAR ELSE parts[i]]

\* PathSelector without the trimming of each part
PathSelectorUntrimmedParts(p) ==
    LET trimmed == TrimSpace(p)
        pth == IF trimmed = EMPTY THEN SLASH ELSE trimmed
        parts == Split(pth)
        stars == [i \in 1..Len(parts) |->
                    IF i # 1 /\ parts[i] = EMPTY THEN STAR ELSE parts[i]]
    IN Reverse(stars)

PathSelector(p) ==
    LET trimmed == TrimSpace(p)
        pth == IF trimmed = EMPTY THEN SLASH ELSE trimmed
        split == Split(pth)
        parts == [i \in 1..Len(split) |-> TrimSpace(split[i])]
        stars == [i \in 1..Len(parts) |->
                    IF i # 1 /\ parts[i] = EMPTY THEN STAR ELSE parts[i]]
    IN Reverse(stars)

\* Matches without the final i == len(s)
RECURSIVE MatchesFromAnyLength(_, _, _, _)
MatchesFromAnyLength(s, i, heap, n) ==
    IF n # NIL /\ i <= Len(s)
    THEN IF s[i] # STAR /\ s[i] # heap[n].StartElement.Name.Local
         THEN FALSE
         ELSE MatchesFromAnyLength(s, i + 1, heap, heap[n].Parent)
    ELSE TRUE

\* Matches comparing the qualified name: an exact segment takes no namespace
RECURSIVE MatchesFromQualified(_, _, _, _)
MatchesFromQualified(s, i, heap, n) ==
    IF n # NIL /\ i <= Len(s)
    THEN IF s[i] # STAR /\ (\/ s[i] # heap[n].StartElement.Name.Local
                            \/ heap[n].StartElement.Name.Space # EMPTY)
         THEN FALSE
         ELSE MatchesFromQualified(s, i + 1, heap, heap[n].Parent)
    ELSE i = Len(s) + 1

\* the loop of pathSelector.Matches, i counted from 1
RECURSIVE MatchesFrom(_, _, _, _)
MatchesFrom(s, i, heap, n) ==
    IF n # NIL /\ i <= Len(s)
    THEN IF s[i] # STAR /\ s[i] # heap[n].StartElement.Name.Local
         THEN FALSE
         ELSE MatchesFrom(s, i + 1, heap, heap[n].Parent)
    ELSE i = Len(s) + 1

Matches(s, heap, n) == MatchesFrom(s, 1, heap, n)

-----------------------------------------------------------------------------
(* Tokens and the xml.Decoder *)

NSExpand == 0
NSPrefix == 1
NSStrip == 2

XMLNS == <<"x", "m", "l", "n", "s">>
XML == <<"x", "m", "l">>
XMLURL == <<"x", "m", "l", "-", "u", "r", "l">>

Attr(name, value) == [Name |-> name, Value |-> value]

\* an xml.Token: start (Name, Attr), end (Name), chardata (Data), or one of
\* comment, procinst, directive
Token(kind, name, attr, data) ==
    [kind |-> kind, Name |-> name, Attr |-> attr, Data |-> data]
StartToken(name, attr) == Token("start", name, attr, EMPTY)
EndToken(name) == Token("end", name, << >>, EMPTY)
CharDataToken(data) == Token("chardata", Name(EMPTY, EMPTY), << >>, data)
OtherToken(kind) == Token(kind, Name(EMPTY, EMPTY), << >>, EMPTY)

NoErr == "nil"
ErrEOF == "EOF"
ErrSyntax == "XML syntax error"
UnexpectedEOF == "xmlpicker: unexpected EOF"
ErrPoisoned == "xmlpicker: will no longer consume tokens, Next() called after error"
ErrTokens == "xmlpicker: token limit reached"
ErrDepth == "xmlpicker: depth limit reached"
ErrChildren == "xmlpicker: maximum node child limit reached"
ErrUnexpectedEnd == "xmlpicker: unexpected end element"
ErrClosedBy == "xmlpicker: element closed by"
ErrClosedBySpace == "xmlpicker: element in space closed by in space"

MapSet(m, k, v) == [p \in (DOMAIN m) \cup {k} |-> IF p = k THEN v ELSE m[p]]

\* an xmlns="..." or xmlns:p="..." attribute, and the prefix it declares
IsDeclaration(a) ==
    \/ a.Name.Space = XMLNS
    \/ (a.Name.Space = EMPTY /\ a.Name.Local = XMLNS)
DeclaredPrefix(a) == IF a.Name.Space = XMLNS THEN a.Name.Local ELSE EMPTY

\* the bindings m after the declarations among attrs, later ones overriding
RECURSIVE Declare(_, _)
Declare(m, attrs) ==
    IF attrs = << >> THEN m
    ELSE Declare(IF IsDeclaration(Head(attrs))
                 THEN MapSet(m, DeclaredPrefix(Head(attrs)), Head(attrs).Value)
                 ELSE m,
                 Tail(attrs))

\* Decoder.translate: the prefix of a name replaced by the URI bound to it
Translate(n, ns, isElementName) ==
    IF n.Space = XMLNS THEN n
    ELSE IF n.Space = EMPTY /\ ~isElementName THEN n
    ELSE IF n.Space = XML THEN [n EXCEPT !.Space = XMLURL]
    ELSE IF n.Space = EMPTY /\ n.Local = XMLNS THEN n
    ELSE IF n.Space \in DOMAIN ns THEN [n EXCEPT !.Space = ns[n.Space]]
    ELSE n

NewDecoder == [stack |-> << >>, err |-> NoErr]

\* the bindings in scope at the innermost element the decoder has open
DecoderNs(d) == IF d.stack = << >> THEN << >> ELSE d.stack[Len(d.stack)].ns

\* Token() delivers an end tag only when its translated name is the translated
\* name of the open element (any other end tag is a syntax error); RawToken()
\* delivers every token
CanDeliver(flag, d, raw) ==
    /\ d.err = NoErr
    /\ (flag # NSPrefix /\ raw.kind = "end") =>
          /\ d.stack # << >>
          /\ d.stack[Len(d.stack)].name = Translate(raw.Name, DecoderNs(d), TRUE)

\* the token as handed to the parser: RawToken() under NSPrefix, else Token()
Deliver(flag, d, raw) ==
    IF flag = NSPrefix THEN raw
    ELSE IF raw.kind = "start"
    THEN LET ns == Declare(DecoderNs(d), raw.Attr)
         IN [raw EXCEPT
               !.Name = Translate(raw.Name, ns, TRUE),
               !.Attr = [i \in 1..Len(raw.Attr) |->
                           [raw.Attr[i] EXCEPT
                              !.Name = Translate(raw.Attr[i].Name, ns, FALSE)]]]
    ELSE IF raw.kind = "end"
    THEN [raw EXCEPT !.Name = Translate(raw.Name, DecoderNs(d), TRUE)]
    ELSE raw

\* the decoder after delivering raw
DecoderAfter(flag, d, raw) ==
    IF flag = NSPrefix THEN d
    ELSE IF raw.kind = "start"
    THEN LET ns == Declare(DecoderNs(d), raw.Attr)
         IN [d EXCEPT !.stack =
               Append(@, [name |-> Translate(raw.Name, ns, TRUE), ns |-> ns])]
    ELSE IF raw.kind = "end"
    THEN [d EXCEPT !.stack = SubSeq(@, 1, Len(@) - 1)]
    ELSE d

-----------------------------------------------------------------------------
(* Parser *)

\* Node.SetText / encodeText: a text leaf is an element with an empty name
\* and one unnamed attribute holding the text
encodeText(text) ==
    StartElementOf(Name(EMPTY, EMPTY), <<Attr(Name(EMPTY, EMPTY), text)>>)

\* Node.Text / decodeText
decodeText(e) ==
    IF e.Name.Local # EMPTY \/ e.Name.Space # EMPTY THEN [text |-> EMPTY, ok |-> FALSE]
    ELSE IF Len(e.Attr) # 1 THEN [text |-> EMPTY, ok |-> FALSE]
    ELSE IF e.Attr[1].Name.Local # EMPTY \/ e.Attr[1].Name.Space # EMPTY
    THEN [text |-> EMPTY, ok |-> FALSE]
    ELSE [text |-> e.Attr[1].Value, ok |-> TRUE]

\* push leaving the declarations in the attribute list
pushKeepingDeclarations(flag, cur, start) ==
    LET name == IF flag = NSStrip THEN [start.Name EXCEPT !.Space = EMPTY]
                ELSE start.Name
        update == \E i \in 1..Len(start.Attr) :
                     \/ IsDeclaration(start.Attr[i])
                     \/ (flag = NSStrip /\ start.Attr[i].Name.Space # EMPTY)
        ns == IF update /\ flag = NSPrefix
              THEN [nil |-> FALSE, map |-> Declare(<< >>, start.Attr)]
              ELSE NoNamespaces
        attr == [i \in 1..Len(start.Attr) |->
                   IF flag = NSStrip
                   THEN [start.Attr[i] EXCEPT !.Name.Space = EMPTY]
                   ELSE start.Attr[i]]
    IN NewNode(StartElementOf(name, attr), ns, cur)

\* push clearing the namespace of the element name only
pushKeepingAttrSpaces(flag, cur, start) ==
    LET name == IF flag = NSStrip THEN [start.Name EXCEPT !.Space = EMPTY]
                ELSE start.Name
        update == \E i \in 1..Len(start.Attr) :
                     \/ IsDeclaration(start.Attr[i])
                     \/ (flag = NSStrip /\ start.Attr[i].Name.Space # EMPTY)
        ns == IF update /\ flag = NSPrefix
              THEN [nil |-> FALSE, map |-> Declare(<< >>, start.Attr)]
              ELSE NoNamespaces
        kept == SelectSeq(start.Attr, LAMBDA a : ~IsDeclaration(a))
    IN NewNode(StartElementOf(name, IF ~update THEN start.Attr ELSE kept), ns, cur)

\* Parser.push: the node for a start tag, under the namespace policy
push(flag, cur, start) ==
    LET name == IF flag = NSStrip THEN [start.Name EXCEPT !.Space = EMPTY]
                ELSE start.Name
        update == \E i \in 1..Len(start.Attr) :
                     \/ IsDeclaration(start.Attr[i])
                     \/ (flag = NSStrip /\ start.Attr[i].Name.Space # EMPTY)
        ns == IF update /\ flag = NSPrefix
              THEN [nil |-> FALSE, map |-> Declare(<< >>, start.Attr)]
              ELSE NoNamespaces
        kept == SelectSeq(start.Attr, LAMBDA a : ~IsDeclaration(a))
        attr == IF ~update THEN start.Attr
                ELSE [i \in 1..Len(kept) |->
                        IF flag = NSStrip
                        THEN [kept[i] EXCEPT !.Name.Space = EMPTY]
                        ELSE kept[i]]
    IN NewNode(StartElementOf(name, attr), ns, cur)

\* pop without the check for the root sentinel
popUnchecked(heap, cur, flag, end) ==
    LET start == heap[cur].StartElement
        fail(e) == [err |-> e, popped |-> NIL, node |-> cur]
    IN IF start.Name.Local # end.Name.Local THEN fail(ErrClosedBy)
       ELSE IF flag # NSStrip /\ start.Name.Space # end.Name.Space
       THEN fail(ErrClosedBySpace)
       ELSE [err |-> NoErr, popped |-> cur, node |-> heap[cur].Parent]

\* pop comparing local names only
popLocalOnly(heap, cur, flag, end) ==
    LET start == heap[cur].StartElement
        fail(e) == [err |-> e, popped |-> NIL, node |-> cur]
    IN IF heap[cur].Parent = NIL THEN fail(ErrUnexpectedEnd)
       ELSE IF start.Name.Local # end.Name.Local THEN fail(ErrClosedBy)
       ELSE [err |-> NoErr, popped |-> cur, node |-> heap[cur].Parent]

\* Parser.pop: the popped node and the new current node, or an error
pop(heap, cur, flag, end) ==
    LET start == heap[cur].StartElement
        fail(e) == [err |-> e, popped |-> NIL, node |-> cur]
    IN IF heap[cur].Parent = NIL THEN fail(ErrUnexpectedEnd)
       ELSE IF start.Name.Local # end.Name.Local THEN fail(ErrClosedBy)
       ELSE IF flag # NSStrip /\ start.Name.Space # end.Name.Space
       THEN fail(ErrClosedBySpace)
       ELSE [err |-> NoErr, popped |-> cur, node |-> heap[cur].Parent]

\* the depth check with >= for >
DepthExceededAtCap(heap, n, max) == Depth(heap, n) >= max

\* p.node.Depth() > p.MaxDepth
DepthExceeded(heap, n, max) == Depth(heap, n) > max

\* every element appended to the enclosing element's list
ParentIdleNever(heap, n) == FALSE

\* the selector consulted for every start tag
ParentIdleAlways(heap, n) == TRUE

\* only the root sentinel taken for an element that is not recording
ParentIdleAtRootOnly(heap, n) == heap[n].Parent = 1

\* p.node.Parent.Children == nil: the enclosing element is not recording
ParentIdle(heap, n) == heap[heap[n].Parent].Children.nil

\* every recording element returned when it closes
CompletedAnyRecording(heap, prev, cur) == ~heap[prev].Children.nil

\* every element under an idle parent returned when it closes
CompletedUnderIdle(heap, prev, cur) == heap[cur].Children.nil

\* prev.Children != nil && p.node.Children == nil: a retention root closed
Completed(heap, prev, cur) == ~heap[prev].Children.nil /\ heap[cur].Children.nil

\* character data ignored only outside the root element
TextIgnoredAtRootOnly(heap, cur) == cur = 1

\* character data kept wherever it is read
TextIgnoredNowhere(heap, cur) == FALSE

\* p.node.Children == nil on character data
TextIgnored(heap, cur) == heap[cur].Children.nil

\* the children check with >= for >
ChildrenExceededAtCap(heap, n, max) == Len(heap[n].Children.list) >= max

\* len(children) > p.MaxChildren
ChildrenExceeded(heap, n, max) == Len(heap[n].Children.list) > max

Return(n, e) == [node |-> n, err |-> e]
NoReturn == Return(NIL, NoErr)

\* what Next returns when the decoder returns the error e
ReadFailure(e) ==
    Return(NIL, IF e = ErrEOF /\ ~nodes[node].Children.nil THEN UnexpectedEOF ELSE e)

\* Next without the check of p.node on entry
NextCallWithoutEntryCheck ==
    /\ pc = "ready"
    /\ IF decoder.err # NoErr
      THEN ret' = ReadFailure(decoder.err) /\ pc' = "ready"
      ELSE ret' = NoReturn /\ pc' = "loop"
    /\ lookup' = NoLookup
    /\ exported.err = NoErr
    /\ exported' = NoExport
    /\ mapped' = NoMap
    /\ UNCHANGED <<path, selector, matched, nodes, node, NSFlag, MaxDepth,
                   MaxChildren, MaxTokens, tokenCount, decoder, yielded,
                   trace, closed, hasNS, Encoder>>

\* Next is entered: a parser whose node is nil refuses, and a decoder that
\* has failed returns its error again at the first read
NextCall ==
    /\ pc = "ready"
    /\ IF node = NIL
       THEN ret' = Return(NIL, ErrPoisoned) /\ pc' = "ready"
       ELSE IF decoder.err # NoErr
       THEN ret' = ReadFailure(decoder.err) /\ pc' = "ready"
       ELSE ret' = NoReturn /\ pc' = "loop"
    /\ lookup' = NoLookup
    /\ exported.err = NoErr
    /\ exported' = NoExport
    /\ mapped' = NoMap
    /\ UNCHANGED <<path, selector, matched, nodes, node, NSFlag, MaxDepth,
                   MaxChildren, MaxTokens, tokenCount, decoder, yielded,
                   trace, closed, hasNS, Encoder>>

\* the decoder returns an error instead of a token: end of input or a syntax
\* error; Token() reports end of input inside an open element as a syntax error
ReadError(e) ==
    /\ pc = "loop"
    /\ decoder.err = NoErr
    /\ (e = ErrEOF /\ NSFlag # NSPrefix) => decoder.stack = << >>
    /\ decoder' = [decoder EXCEPT !.err = e]
    /\ ret' = ReadFailure(e)
    /\ pc' = "ready"
    /\ UNCHANGED <<path, selector, matched, nodes, node, NSFlag, MaxDepth,
                   MaxChildren, MaxTokens, tokenCount, yielded, trace, closed,
                   lookup, exporter, mapped>>

\* one token is read and counted
Consume(raw) ==
    /\ pc = "loop"
    /\ Len(trace) < MaxDoc
    /\ CanDeliver(NSFlag, decoder, raw)
    /\ decoder' = DecoderAfter(NSFlag, decoder, raw)
    /\ tokenCount' = tokenCount + 1
    /\ UNCHANGED <<path, selector, NSFlag, MaxDepth, MaxChildren, MaxTokens,
                   lookup, exporter, mapped>>

\* the token check with >= for >
TokenLimitAtCap == MaxTokens # -1 /\ tokenCount + 1 >= MaxTokens

\* p.MaxTokens != -1 && p.tokenCount > p.MaxTokens, after the increment
TokenLimit == MaxTokens # -1 /\ tokenCount + 1 > MaxTokens

\* what the history records of the token: as the document holds it and as the
\* decoder delivered it, the element open when it was read and the node it
\* created
Event(raw, t, heap) ==
    [raw |-> raw, tok |-> t, at |-> node,
     made |-> IF Len(heap) > Len(nodes) THEN Len(heap) ELSE NIL]

Poison(e) ==
    /\ node' = NIL
    /\ ret' = Return(NIL, e)
    /\ pc' = "ready"

Continue ==
    /\ pc' = "loop"
    /\ ret' = ret

\* case xml.StartElement
StartElement(raw) ==
    /\ raw.kind = "start"
    /\ Consume(raw)
    /\ LET t == Deliver(NSFlag, decoder, raw)
           id == Len(nodes) + 1
           pushed == Append(nodes, push(NSFlag, node, t))
           made == [pushed EXCEPT ![id].Children = MakeChildren]
           linked == [made EXCEPT ![node].Children = AppendChild(@, id)]
       IN IF TokenLimit
          THEN /\ Poison(ErrTokens)
               /\ trace' = Append(trace, Event(raw, t, nodes))
               /\ UNCHANGED <<nodes, matched>>
          ELSE /\ trace' = Append(trace, Event(raw, t, pushed))
               /\ IF DepthExceeded(pushed, id, MaxDepth)
                  THEN /\ nodes' = pushed
                       /\ Poison(ErrDepth)
                       /\ UNCHANGED matched
                  ELSE IF ParentIdle(pushed, id)
                  THEN /\ matched' = Matches(selector, pushed, id)
                       /\ nodes' = IF matched' THEN made ELSE pushed
                       /\ node' = id
                       /\ Continue
                  ELSE /\ nodes' = linked
                       /\ node' = id
                       /\ UNCHANGED matched
                       /\ IF ChildrenExceeded(linked, node, MaxChildren)
                          THEN ret' = Return(NIL, ErrChildren) /\ pc' = "ready"
                          ELSE Continue
    /\ UNCHANGED <<yielded, closed>>

\* case xml.EndElement
EndElement(raw) ==
    /\ raw.kind = "end"
    /\ Consume(raw)
    /\ LET t == Deliver(NSFlag, decoder, raw)
           r == pop(nodes, node, NSFlag, t)
       IN /\ trace' = Append(trace, Event(raw, t, nodes))
          /\ IF TokenLimit
             THEN Poison(ErrTokens) /\ UNCHANGED <<yielded, closed>>
             ELSE IF r.err # NoErr
             THEN Poison(r.err) /\ UNCHANGED <<yielded, closed>>
             ELSE /\ node' = r.node
                  /\ closed' = closed \cup {r.popped}
                  /\ IF Completed(nodes, r.popped, r.node)
                     THEN /\ ret' = Return(r.popped, NoErr)
                          /\ yielded' = Append(yielded, r.popped)
                          /\ pc' = "ready"
                     ELSE Continue /\ UNCHANGED yielded
    /\ UNCHANGED <<nodes, matched>>

\* case xml.CharData
CharData(raw) ==
    /\ raw.kind = "chardata"
    /\ Consume(raw)
    /\ LET t == Deliver(NSFlag, decoder, raw)
           s == TrimSpace(t.Data)
           id == Len(nodes) + 1
           leaf == NewNode(encodeText(s), NoNamespaces, node)
           linked == [Append(nodes, leaf) EXCEPT
                         ![node].Children = AppendChild(@, id)]
       IN IF TokenLimit
          THEN /\ Poison(ErrTokens)
               /\ trace' = Append(trace, Event(raw, t, nodes))
               /\ UNCHANGED nodes
          ELSE IF TextIgnored(nodes, node) \/ Len(s) = 0
          THEN /\ Continue
               /\ trace' = Append(trace, Event(raw, t, nodes))
               /\ UNCHANGED <<nodes, node>>
          ELSE /\ nodes' = linked
               /\ trace' = Append(trace, Event(raw, t, linked))
               /\ UNCHANGED node
               /\ IF ChildrenExceeded(linked, node, MaxChildren)
                  THEN ret' = Return(NIL, ErrChildren) /\ pc' = "ready"
                  ELSE Continue
    /\ UNCHANGED <<matched, yielded, closed>>

IgnoredKinds == {"comment", "procinst", "directive"}

\* case xml.Comment, xml.ProcInst, xml.Directive
Ignored(raw) ==
    /\ raw.kind \in IgnoredKinds
    /\ Consume(raw)
    /\ trace' = Append(trace, Event(raw, raw, nodes))
    /\ IF TokenLimit
       THEN Poison(ErrTokens)
       ELSE Continue /\ UNCHANGED node
    /\ UNCHANGED <<nodes, matched, yielded, closed>>

-----------------------------------------------------------------------------
(* XML exporter and the xml.Encoder *)

COLON == <<":">>

ErrUndeclared == "xmlpicker: undeclared prefix"
ErrStartNoName == "xml: start tag with no name"
ErrEndNoName == "xml: end tag with no name"
ErrEndWithoutStart == "xml: end tag without start tag"
ErrEndMismatch == "xml: end tag does not match start tag"
ErrEndMismatchSpace == "xml: end tag in namespace does not match start tag in namespace"

\* the characters of the model in byte order, and a character's place in it
ByteOrder ==
    <<"\n", " ", "#", "&", "0", "1", "3", ":", ";", "a", "b", "d", "k", "l",
      "m", "n", "p", "s", "t", "u", "v", "w", "x", "y">>
Rank(c) == CHOOSE i \in DOMAIN ByteOrder : ByteOrder[i] = c

\* s < t as Go compares strings
RECURSIVE StringLess(_, _)
StringLess(s, t) ==
    IF t = << >> THEN FALSE
    ELSE IF s = << >> THEN TRUE
    ELSE IF Head(s) # Head(t) THEN Rank(Head(s)) < Rank(Head(t))
    ELSE StringLess(Tail(s), Tail(t))

\* sort.Strings: the strings of ks in ascending order
RECURSIVE SortStrings(_)
SortStrings(ks) ==
    IF ks = {} THEN << >>
    ELSE LET least == CHOOSE k \in ks : \A o \in ks \ {k} : StringLess(k, o)
         IN <<least>> \o SortStrings(ks \ {least})

\* strings.Replace(text, old, new, -1) for a one-character old
RECURSIVE Replace(_, _, _)
Replace(text, old, new) ==
    IF text = << >> THEN << >>
    ELSE (IF Head(text) = old THEN new ELSE <<Head(text)>>)
         \o Replace(Tail(text), old, new)

\* the exporter while a call runs: hasNS, the encoder's open tags, the tokens
\* the encoder has written (each with the node it was made for), and the error
\* the call returns with the prefix and node it names
Running(h, enc) ==
    [hasNS |-> h, tags |-> enc.tags, out |-> enc.out,
     err |-> NoErr, prefix |-> EMPTY, at |-> NIL]

Undeclared(st, n, prefix) ==
    [st EXCEPT !.err = ErrUndeclared, !.prefix = prefix, !.at = n]

\* Encoder.EncodeToken: a start tag is pushed, an end tag must close the
\* innermost open tag by local name and namespace, text is written as it is
EncodeToken(st, t, n) ==
    LET written == Append(st.out, [tok |-> t, of |-> n])
        fail(e) == [st EXCEPT !.err = e]
    IN IF t.kind = "start"
       THEN IF t.Name.Local = EMPTY THEN fail(ErrStartNoName)
            ELSE [st EXCEPT !.tags = Append(@, t.Name), !.out = written]
       ELSE IF t.kind = "end"
       THEN IF t.Name.Local = EMPTY THEN fail(ErrEndNoName)
            ELSE IF st.tags = << >> THEN fail(ErrEndWithoutStart)
            ELSE IF st.tags[Len(st.tags)].Local # t.Name.Local
            THEN fail(ErrEndMismatch)
            ELSE IF st.tags[Len(st.tags)].Space # t.Name.Space
            THEN fail(ErrEndMismatchSpace)
            ELSE [st EXCEPT !.tags = SubSeq(@, 1, Len(@) - 1), !.out = written]
       ELSE [st EXCEPT !.out = written]

\* Encoder.EncodeToken escaping text and attribute values: & becomes &amp;
EscapeText(text) == Replace(text, "&", <<"&", "a", "m", "p", ";">>)

\* the decoder reading escaped text back: &amp; is &, &#10; a line feed and
\* &#13; a carriage return
RECURSIVE Unescape(_)
Unescape(text) ==
    LET starts(e) == Len(text) >= Len(e) /\ SubSeq(text, 1, Len(e)) = e
        rest(e) == Unescape(SubSeq(text, Len(e) + 1, Len(text)))
    IN IF text = << >> THEN << >>
       ELSE IF starts(<<"&", "a", "m", "p", ";">>)
       THEN <<"&">> \o rest(<<"&", "a", "m", "p", ";">>)
       ELSE IF starts(<<"&", "#", "1", "0", ";">>)
       THEN <<"\n">> \o rest(<<"&", "#", "1", "0", ";">>)
       ELSE IF starts(<<"&", "#", "1", "3", ";">>)
       THEN <<"\r">> \o rest(<<"&", "#", "1", "3", ";">>)
       ELSE <<Head(text)>> \o Unescape(Tail(text))

\* RawToken reading a written name: prefix:local is split at its one colon
SplitColon(local) ==
    LET cs == {i \in DOMAIN local : local[i] = ":"}
        c == CHOOSE i \in cs : TRUE
    IN IF Cardinality(cs) # 1 \/ c = 1 \/ c = Len(local) THEN Name(EMPTY, local)
       ELSE Name(SubSeq(local, 1, c - 1), SubSeq(local, c + 1, Len(local)))

\* how many tags are open after the first k written tokens
OpenAfter(out, k) ==
    Cardinality({j \in 1..k : out[j].tok.kind = "start"})
       - Cardinality({j \in 1..k : out[j].tok.kind = "end"})

\* the written start tags that are open where the i-th token is written
Enclosing(out, i) ==
    {j \in 1..(i - 1) :
        /\ out[j].tok.kind = "start"
        /\ \A k \in j..(i - 1) : OpenAfter(out, k) >= OpenAfter(out, j)}

\* the namespaces of a tag's qualified attributes
AttrSpaces(t) == {t.Attr[k].Name.Space : k \in DOMAIN t.Attr} \ {EMPTY}

\* Encoder.createAttrPrefix: the prefix the encoder writes a namespace with
\* (the namespaces of the model are single path segments, which it takes as
\* they are)
AttrPrefix(url) == IF url = XMLURL THEN XML ELSE url

\* the attributes of a written start tag as RawToken reads them back: before
\* a qualified attribute, the declaration of its prefix unless the encoder
\* has one in scope
RECURSIVE ReadAttrs(_, _)
ReadAttrs(attrs, known) ==
    IF attrs = << >> THEN << >>
    ELSE LET a == Head(attrs)
             value == Unescape(EscapeText(a.Value))
             space == a.Name.Space
         IN IF a.Name.Local = EMPTY THEN ReadAttrs(Tail(attrs), known)
            ELSE IF space = EMPTY
            THEN <<Attr(SplitColon(a.Name.Local), value)>> \o ReadAttrs(Tail(attrs), known)
            ELSE (IF space \in known \/ space = XMLURL THEN << >>
                  ELSE <<Attr(Name(XMLNS, AttrPrefix(space)), space)>>)
                 \o <<Attr(Name(AttrPrefix(space), a.Name.Local), value)>>
                 \o ReadAttrs(Tail(attrs), known \cup {space})

\* the i-th written token as RawToken reads it back: a start tag is written
\* as its local name, xmlns="space" when it has a namespace, and its
\* attributes; an end tag as its local name; text escaped
ReadBack(out, i) ==
    LET t == out[i].tok
        known == UNION {AttrSpaces(out[j].tok) : j \in Enclosing(out, i)}
    IN IF t.kind = "start"
       THEN StartToken(SplitColon(t.Name.Local),
                       (IF t.Name.Space = EMPTY THEN << >>
                        ELSE <<Attr(Name(EMPTY, XMLNS), t.Name.Space)>>)
                       \o ReadAttrs(t.Attr, known))
       ELSE IF t.kind = "end" THEN EndToken(SplitColon(t.Name.Local))
       ELSE CharDataToken(Unescape(EscapeText(t.Data)))

\* XMLExporter.validatePrefix: TRUE when it returns nil
validatePrefix(heap, h, n, prefix) ==
    \/ ~h
    \/ prefix = EMPTY
    \/ prefix = XML
    \/ LookupPrefix(heap, n, prefix).ok

\* the xmlns attribute that declares prefix k as v
DeclarationAttr(k, v) ==
    Attr(Name(EMPTY, IF k = EMPTY THEN XMLNS ELSE XMLNS \o COLON \o k), v)

\* DeclaredKeys checking a binding against the node itself, not its parent
DeclaredKeysAgainstSelf(heap, n) ==
    {k \in DOMAIN heap[n].Namespaces.map :
        LET prev == LookupPrefix(heap, n, k)
        IN ~(prev.ok /\ prev.ns = heap[n].Namespaces.map[k])}

\* DeclaredKeys without the check against the bindings of the ancestors
DeclaredKeysAll(heap, n) == DOMAIN heap[n].Namespaces.map

\* the prefixes of n's bindings that fixAttributes declares on n's start tag
DeclaredKeys(heap, n) ==
    {k \in DOMAIN heap[n].Namespaces.map :
        LET prev == LookupPrefix(heap, heap[n].Parent, k)
        IN ~(prev.ok /\ prev.ns = heap[n].Namespaces.map[k])}

\* XMLExporter.fixAttributes: the attributes of n's start tag, or the first
\* prefix that does not validate
fixAttributes(heap, h, n) ==
    LET attr == heap[n].StartElement.Attr
        bad == {i \in DOMAIN attr :
                   /\ attr[i].Name.Space # EMPTY
                   /\ ~validatePrefix(heap, h, n, attr[i].Name.Space)}
        first == CHOOSE i \in bad : \A j \in bad : i <= j
        fixed == [i \in DOMAIN attr |->
                    IF attr[i].Name.Space # EMPTY
                    THEN [attr[i] EXCEPT
                            !.Name = Name(EMPTY, attr[i].Name.Space \o COLON
                                                 \o attr[i].Name.Local)]
                    ELSE attr[i]]
        ks == SortStrings(DeclaredKeys(heap, n))
    IN IF ~h THEN [attr |-> attr, ok |-> TRUE, prefix |-> EMPTY]
       ELSE IF bad # {}
       THEN [attr |-> << >>, ok |-> FALSE, prefix |-> attr[first].Name.Space]
       ELSE [attr |-> fixed \o [i \in DOMAIN ks |->
                                  DeclarationAttr(ks[i], heap[n].Namespaces.map[ks[i]])],
             ok |-> TRUE, prefix |-> EMPTY]

\* fixElementName without the comparison with the parent's namespace
fixElementNameKeepingSpace(heap, h, n, name) ==
    IF name.Space = EMPTY THEN [name |-> name, ok |-> TRUE]
    ELSE IF h
    THEN IF validatePrefix(heap, h, n, name.Space)
         THEN [name |-> Name(EMPTY, name.Space \o COLON \o name.Local), ok |-> TRUE]
         ELSE [name |-> name, ok |-> FALSE]
    ELSE [name |-> name, ok |-> TRUE]

\* XMLExporter.fixElementName: the name n's tags are written with
fixElementName(heap, h, n, name) ==
    IF name.Space = EMPTY THEN [name |-> name, ok |-> TRUE]
    ELSE IF h
    THEN IF validatePrefix(heap, h, n, name.Space)
         THEN [name |-> Name(EMPTY, name.Space \o COLON \o name.Local), ok |-> TRUE]
         ELSE [name |-> name, ok |-> FALSE]
    ELSE IF name.Space = heap[heap[n].Parent].StartElement.Name.Space
    THEN [name |-> Name(EMPTY, name.Local), ok |-> TRUE]
    ELSE [name |-> name, ok |-> TRUE]

\* encodeStartElement setting hasNS at every node
encodeStartElementAlwaysNS(heap, st, n) ==
    LET s1 == [st EXCEPT !.hasNS = TRUE]
        attr == fixAttributes(heap, TRUE, n)
        name == fixElementName(heap, TRUE, n, heap[n].StartElement.Name)
    IN IF ~attr.ok THEN Undeclared(s1, n, attr.prefix)
       ELSE IF ~name.ok THEN Undeclared(s1, n, heap[n].StartElement.Name.Space)
       ELSE EncodeToken(s1, StartToken(name.name, attr.attr), n)

\* XMLExporter.encodeStartElement
encodeStartElement(heap, st, n) ==
    LET h == st.hasNS \/ ~heap[n].Namespaces.nil
        s1 == [st EXCEPT !.hasNS = h]
        attr == fixAttributes(heap, h, n)
        name == fixElementName(heap, h, n, heap[n].StartElement.Name)
    IN IF ~attr.ok THEN Undeclared(s1, n, attr.prefix)
       ELSE IF ~name.ok THEN Undeclared(s1, n, heap[n].StartElement.Name.Space)
       ELSE EncodeToken(s1, StartToken(name.name, attr.attr), n)

\* XMLExporter.encodeEndElement
encodeEndElement(heap, st, n) ==
    LET name == fixElementName(heap, st.hasNS, n, heap[n].StartElement.Name)
    IN IF ~name.ok THEN Undeclared(st, n, heap[n].StartElement.Name.Space)
       ELSE EncodeToken(st, EndToken(name.name), n)

\* XMLExporter.encodeText
encodeTextToken(st, text, n) ==
    EncodeToken(st,
                CharDataToken(Replace(Replace(text, "\n", <<"&", "#", "1", "0", ";">>),
                                      "\r", <<"&", "#", "1", "3", ";">>)),
                n)

\* XMLExporter.EncodeNode, and its loop over the children from the i-th on
RECURSIVE EncodeNode(_, _, _), EncodeChildren(_, _, _, _)
EncodeNode(heap, st, n) ==
    LET text == decodeText(heap[n].StartElement)
        started == encodeStartElement(heap, st, n)
        inner == EncodeChildren(heap, started, n, 1)
    IN IF text.ok THEN encodeTextToken(st, text.text, n)
       ELSE IF started.err # NoErr THEN started
       ELSE IF inner.err # NoErr THEN inner
       ELSE encodeEndElement(heap, inner, n)
EncodeChildren(heap, st, n, i) ==
    IF i > Len(heap[n].Children.list) THEN st
    ELSE LET child == EncodeNode(heap, st, heap[n].Children.list[i])
         IN IF child.err # NoErr THEN child
            ELSE EncodeChildren(heap, child, n, i + 1)

\* StartPath writing the start tags from n up to the root
RECURSIVE StartPathUpward(_, _, _)
StartPathUpward(heap, st, n) ==
    LET s0 == [st EXCEPT !.hasNS = FALSE]
        own == encodeStartElement(heap, s0, n)
    IN IF heap[n].Parent = NIL THEN s0
       ELSE IF own.err # NoErr THEN own
       ELSE [StartPathUpward(heap, own, heap[n].Parent) EXCEPT !.hasNS = own.hasNS]

\* XMLExporter.StartPath: the start tags of n's ancestors and of n, root first
RECURSIVE StartPath(_, _, _)
StartPath(heap, st, n) ==
    LET s0 == [st EXCEPT !.hasNS = FALSE]
        above == StartPath(heap, s0, heap[n].Parent)
    IN IF heap[n].Parent = NIL THEN s0
       ELSE IF above.err # NoErr THEN above
       ELSE encodeStartElement(heap, above, n)

\* XMLExporter.EndPath: the end tags of n and of its ancestors, n first
RECURSIVE EndPath(_, _, _)
EndPath(heap, st, n) ==
    LET own == encodeEndElement(heap, st, n)
    IN IF heap[n].Parent = NIL THEN st
       ELSE IF own.err # NoErr THEN own
       ELSE EndPath(heap, own, heap[n].Parent)

\* the exporter after a call: its fields and what the caller was returned
Returned(call, n, st) ==
    /\ hasNS' = st.hasNS
    /\ Encoder' = [tags |-> st.tags, out |-> st.out]
    /\ exported' = [call |-> call, node |-> n, path |-> call # "EncodeNode" \/ exported.path,
                    err |-> st.err, prefix |-> st.prefix, at |-> st.at]
    /\ UNCHANGED <<path, selector, matched, pc, nodes, node, parser, mapped>>

\* the caller exports the tree Next returned: StartPath(n.Parent), then
\* EncodeNode(n), then EndPath(n.Parent), stopping at the first error; or
\* EncodeNode(n) alone
CallStartPath ==
    /\ pc = "ready"
    /\ ret.node # NIL
    /\ exported = NoExport
    /\ Returned("StartPath", ret.node,
                StartPath(nodes, Running(hasNS, [Encoder EXCEPT !.out = << >>]),
                          nodes[ret.node].Parent))

CallEncodeNode ==
    /\ pc = "ready"
    /\ ret.node # NIL
    /\ exported.call \in {"none", "StartPath"}
    /\ exported.err = NoErr
    /\ Returned("EncodeNode", ret.node,
                EncodeNode(nodes,
                           Running(hasNS, IF exported.path THEN Encoder
                                          ELSE [Encoder EXCEPT !.out = << >>]),
                           ret.node))

CallEndPath ==
    /\ pc = "ready"
    /\ ret.node # NIL
    /\ exported.call = "EncodeNode"
    /\ exported.path
    /\ exported.err = NoErr
    /\ Returned("EndPath", ret.node,
                EndPath(nodes, Running(hasNS, Encoder), nodes[ret.node].Parent))

-----------------------------------------------------------------------------
(* SimpleMapper: a returned tree as a map[string]interface{}               *)

HASHTEXT == <<"#", "t", "e", "x", "t">>
UNDERNAME == <<"_", "n", "a", "m", "e">>
UNDERNAMESPACE == <<"_", "n", "a", "m", "e", "s", "p", "a", "c", "e">>
UNDERNAMESPACES == <<"_", "n", "a", "m", "e", "s", "p", "a", "c", "e", "s">>

\* the values a map holds, each with its Go type
GoString(s) == [kind |-> "string", val |-> s]
GoStrings(l) == [kind |-> "[]string", val |-> l]
GoList(l) == [kind |-> "[]interface{}", val |-> l]
GoNamespaces(ns) == [kind |-> "Namespaces", val |-> ns]
GoMap(m) == [kind |-> "map", val |-> m]

\* make(map[string]interface{}) and out[key] = value
MakeMap == << >>
Put(out, key, value) == (key :> value) @@ out

\* the loop of FromNode: does the node or one of its ancestors hold Namespaces
RECURSIVE ChainHasNS(_, _)
ChainHasNS(heap, n) ==
    IF n = NIL THEN FALSE
    ELSE IF ~heap[n].Namespaces.nil THEN TRUE
    ELSE ChainHasNS(heap, heap[n].Parent)

\* the key of an attribute and of a child element
AttrKey(a, h) ==
    IF a.Name.Space = EMPTY THEN <<"@">> \o a.Name.Local
    ELSE IF h THEN <<"@">> \o a.Name.Space \o COLON \o a.Name.Local
    ELSE <<"@">> \o a.Name.Local \o <<" ">> \o a.Name.Space
ChildKey(name, h) ==
    IF name.Space = EMPTY THEN name.Local
    ELSE IF h THEN name.Space \o COLON \o name.Local
    ELSE name.Local \o <<" ">> \o name.Space

\* the loop over node.StartElement.Attr
RECURSIVE PutAttrs(_, _, _, _)
PutAttrs(out, attr, i, h) ==
    IF i > Len(attr) THEN out
    ELSE PutAttrs(Put(out, AttrKey(attr[i], h), GoString(attr[i].Value)), attr, i + 1, h)

\* out[key] = append(values, value)
Grouped(values, value) == Append(values, value)

\* fromNodeImpl, and its loop over node.Children from the i-th child on;
\* prev.([]interface{}) panics when out[key] holds something else
RECURSIVE fromNodeImpl(_, _, _, _, _)
RECURSIVE MapChildren(_, _, _, _, _, _)
MapChildren(heap, h, out, list, i, depth) ==
    IF i > Len(list) THEN [out |-> out, panic |-> FALSE]
    ELSE LET c == heap[list[i]].StartElement
             text == decodeText(c)
             key == IF text.ok THEN HASHTEXT ELSE ChildKey(c.Name, h)
             sub == fromNodeImpl(heap, h, MakeMap, list[i], depth + 1)
             value == IF text.ok THEN GoString(text.text) ELSE GoMap(sub.out)
             values == IF key \in DOMAIN out THEN out[key].val ELSE << >>
         IN IF ~text.ok /\ sub.panic THEN [out |-> out, panic |-> TRUE]
            ELSE IF key \in DOMAIN out /\ out[key].kind # "[]interface{}"
            THEN [out |-> out, panic |-> TRUE]
            ELSE MapChildren(heap, h, Put(out, key, GoList(Grouped(values, value))),
                             list, i + 1, depth)

fromNodeImpl(heap, h, out, n, depth) ==
    LET e == heap[n].StartElement
        text == decodeText(e)
        named == IF depth # 0 THEN out
                 ELSE IF e.Name.Space # EMPTY
                 THEN Put(Put(out, UNDERNAME, GoString(e.Name.Local)),
                          UNDERNAMESPACE, GoString(e.Name.Space))
                 ELSE Put(out, UNDERNAME, GoString(e.Name.Local))
        declares == ~heap[n].Namespaces.nil
        spaced == IF declares
                  THEN Put(named, UNDERNAMESPACES, GoNamespaces(heap[n].Namespaces.map))
                  ELSE named
    IN IF text.ok
       THEN [out |-> Put(out, HASHTEXT, GoStrings(<<text.text>>)), panic |-> FALSE]
       ELSE MapChildren(heap, h \/ declares, PutAttrs(spaced, e.Attr, 1, h \/ declares),
                        heap[n].Children.list, 1, depth)

\* SimpleMapper.FromNode
FromNode(heap, n) == fromNodeImpl(heap, ChainHasNS(heap, n), MakeMap, n, 0)

\* the caller maps the tree Next has just returned
CallFromNode ==
    /\ pc = "ready" /\ ret.node # NIL /\ mapped = NoMap
    /\ LET r == FromNode(nodes, ret.node)
       IN mapped' = [node |-> ret.node, out |-> r.out, panic |-> r.panic]
    /\ UNCHANGED <<path, selector, matched, pc, nodes, node, parser, exporter>>

-----------------------------------------------------------------------------
(* Parsing a whole document: the calls of Next a caller makes until the    *)
(* first error, as a function of the document and the parser's settings   *)

\* a tree by value: each node's element and its children, in order
RECURSIVE Value(_, _)
Value(heap, n) ==
    [StartElement |-> heap[n].StartElement,
     Children |-> [i \in DOMAIN heap[n].Children.list |->
                     Value(heap, heap[n].Children.list[i])]]

\* NewParser, with the fields the caller sets
Settings(flag, sel, depth, children, tokens) ==
    [NSFlag |-> flag, selector |-> sel, MaxDepth |-> depth,
     MaxChildren |-> children, MaxTokens |-> tokens]

\* the parser before its first token, and the trees it has returned
NewParse ==
    [nodes |-> <<Sentinel>>, node |-> 1, tokenCount |-> 0, decoder |-> NewDecoder,
     yields |-> << >>, err |-> NoErr]

\* one iteration of the loop of Next on the token raw
ParseToken(p, raw, cfg) ==
    LET t == Deliver(cfg.NSFlag, p.decoder, raw)
        read == [p EXCEPT !.decoder = DecoderAfter(cfg.NSFlag, p.decoder, raw),
                          !.tokenCount = @ + 1]
        fail(e) == [read EXCEPT !.err = e]
        id == Len(p.nodes) + 1
        pushed == Append(p.nodes, push(cfg.NSFlag, p.node, t))
        made == [pushed EXCEPT ![id].Children = MakeChildren]
        linked == [made EXCEPT ![p.node].Children = AppendChild(@, id)]
        r == pop(p.nodes, p.node, cfg.NSFlag, t)
        s == TrimSpace(t.Data)
        leafed == [Append(p.nodes, NewNode(encodeText(s), NoNamespaces, p.node))
                      EXCEPT ![p.node].Children = AppendChild(@, id)]
    IN IF cfg.MaxTokens # -1 /\ read.tokenCount > cfg.MaxTokens THEN fail(ErrTokens)
       ELSE IF t.kind = "start"
       THEN IF DepthExceeded(pushed, id, cfg.MaxDepth) THEN fail(ErrDepth)
            ELSE IF ParentIdle(pushed, id)
            THEN [read EXCEPT !.node = id,
                              !.nodes = IF Matches(cfg.selector, pushed, id)
                                        THEN made ELSE pushed]
            ELSE IF ChildrenExceeded(linked, p.node, cfg.MaxChildren)
            THEN fail(ErrChildren)
            ELSE [read EXCEPT !.node = id, !.nodes = linked]
       ELSE IF t.kind = "end"
       THEN IF r.err # NoErr THEN fail(r.err)
            ELSE IF Completed(p.nodes, r.popped, r.node)
            THEN [read EXCEPT !.node = r.node,
                              !.yields = Append(@, Value(p.nodes, r.popped))]
            ELSE [read EXCEPT !.node = r.node]
       ELSE IF t.kind = "chardata"
       THEN IF TextIgnored(p.nodes, p.node) \/ Len(s) = 0 THEN read
            ELSE IF ChildrenExceeded(leafed, p.node, cfg.MaxChildren)
            THEN fail(ErrChildren)
            ELSE [read EXCEPT !.nodes = leafed]
       ELSE read

\* what the decoder returns when the document has no token left: Token()
\* reports the end inside an open element as a syntax error
AtEnd(p, cfg) ==
    IF cfg.NSFlag # NSPrefix /\ p.decoder.stack # << >> THEN ErrSyntax
    ELSE IF ~p.nodes[p.node].Children.nil THEN UnexpectedEOF
    ELSE ErrEOF

\* the calls of Next while the decoder delivers the tokens raws: every
\* returned tree handed on, the first error ending them
RECURSIVE Run(_, _, _)
Run(raws, p, cfg) ==
    IF p.err # NoErr \/ raws = << >> THEN p
    ELSE IF ~CanDeliver(cfg.NSFlag, p.decoder, Head(raws)) THEN [p EXCEPT !.err = ErrSyntax]
    ELSE Run(Tail(raws), ParseToken(p, Head(raws), cfg), cfg)

\* the call of Next that finds the input at its end
Ended(p, cfg) == IF p.err # NoErr THEN p ELSE [p EXCEPT !.err = AtEnd(p, cfg)]

\* the calls of Next on the whole document raws, to the error that ends them
Parse(raws, p, cfg) == Ended(Run(raws, p, cfg), cfg)

\* the document the encoder has written, as the decoder reads it: text
\* written back to back is one CharData
RECURSIVE ReadFrom(_, _)
ReadFrom(out, i) ==
    IF i > Len(out) THEN << >>
    ELSE LET raw == ReadBack(out, i)
             rest == ReadFrom(out, i + 1)
         IN IF raw.kind = "chardata" /\ rest # << >> /\ Head(rest).kind = "chardata"
            THEN <<CharDataToken(raw.Data \o Head(rest).Data)>> \o Tail(rest)
            ELSE <<raw>> \o rest

-----------------------------------------------------------------------------
(* Parser specification: every document of at most MaxDoc tokens *)

TokenCap == 3       \* the MaxTokens of the capped configuration

A == <<"a">>
B == <<"b">>
X == <<"x">>

\* <a>, <b> and <x:b xmlns:x="u" x:k="v">
StartTokens ==
    { StartToken(Name(EMPTY, A), << >>),
      StartToken(Name(EMPTY, B), << >>),
      StartToken(Name(X, B), <<Attr(Name(XMLNS, X), <<"u">>),
                               Attr(Name(X, <<"k">>), <<"v">>)>>) }
EndTokens == {EndToken(t.Name) : t \in StartTokens}
\* a blank run and a run with whitespace around its text
CharDataTokens ==
    { CharDataToken(<<" ">>), CharDataToken(<<" ", "t", "\n">>) }
OtherTokens == {OtherToken(k) : k \in IgnoredKinds}
Comments == {OtherToken("comment")}

\* "/" (the root element), "/a/" (the children of a root a) and "b" (every b)
SelectorPatterns == {SLASH, <<"/", "a", "/">>, B}

Init ==
    /\ path \in SelectorPatterns
    /\ selector = PathSelector(path)
    /\ matched = FALSE
    /\ pc = "ready"
    /\ nodes = <<Sentinel>>
    /\ node = 1
    /\ NSFlag \in {NSExpand, NSPrefix, NSStrip}
    /\ MaxDepth = DepthCap
    /\ MaxChildren = ChildrenCap
    /\ MaxTokens \in {-1, 0, TokenCap}
    /\ tokenCount = 0
    /\ decoder = NewDecoder
    /\ ret = NoReturn
    /\ yielded = << >>
    /\ trace = << >>
    /\ closed = {}
    /\ lookup = NoLookup
    /\ hasNS = FALSE
    /\ Encoder = NewEncoder
    /\ exported = NoExport
    /\ mapped = NoMap

Next ==
    \/ NextCall
    \/ \E e \in {ErrEOF, ErrSyntax} : ReadError(e)
    \/ \E raw \in StartTokens : StartElement(raw)
    \/ \E raw \in EndTokens : EndElement(raw)
    \/ \E raw \in CharDataTokens : CharData(raw)
    \/ \E raw \in Comments : Ignored(raw)

Spec == Init /\ [][Next]_vars

-----------------------------------------------------------------------------
(* Namespace specification: documents whose elements declare, redeclare and *)
(* use prefixes, parsed under each policy, and the caller's LookupPrefix    *)
(* calls on the nodes of a returned tree                                    *)

Y == <<"y">>
U == <<"u">>
W == <<"w">>
D == <<"d">>

\* <a xmlns:x="u" xmlns:y="u">, <x:a xmlns:x="w" xmlns="d" x:k="v"> and <y:a>
NsStartTokens ==
    { StartToken(Name(EMPTY, A), <<Attr(Name(XMLNS, X), U),
                                   Attr(Name(XMLNS, Y), U)>>),
      StartToken(Name(X, A), <<Attr(Name(XMLNS, X), W),
                               Attr(Name(EMPTY, XMLNS), D),
                               Attr(Name(X, <<"k">>), <<"v">>)>>),
      StartToken(Name(Y, A), << >>) }
\* their end tags, and </b>
NsEndTokens ==
    {EndToken(t.Name) : t \in NsStartTokens} \cup {EndToken(Name(EMPTY, B))}
NsCharDataTokens == {CharDataToken(<<"t">>)}
NsOtherTokens == OtherTokens \ Comments

\* "/a/": the children of a root a are returned, the root stays on the spine
NsSelectorPatterns == {<<"/", "a", "/">>}

LookupPrefixes == {EMPTY, X, Y}

\* the caller resolves a prefix at a node it reaches from the returned tree
Lookup(prefix) ==
    /\ pc = "ready"
    /\ ret.node # NIL
    /\ lookup = NoLookup
    /\ \E n \in DOMAIN nodes :
          lookup' = [at |-> n, prefix |-> prefix] @@ LookupPrefix(nodes, n, prefix)
    /\ UNCHANGED <<path, selector, matched, pc, nodes, node, NSFlag, MaxDepth,
                   MaxChildren, MaxTokens, tokenCount, decoder, ret, yielded,
                   trace, closed, exporter, mapped>>

\* the caps out of reach, as NewParser's defaults are
InitNs ==
    /\ path \in NsSelectorPatterns
    /\ selector = PathSelector(path)
    /\ matched = FALSE
    /\ pc = "ready"
    /\ nodes = <<Sentinel>>
    /\ node = 1
    /\ NSFlag \in {NSExpand, NSPrefix, NSStrip}
    /\ MaxDepth = MaxDoc
    /\ MaxChildren = MaxDoc
    /\ MaxTokens = -1
    /\ tokenCount = 0
    /\ decoder = NewDecoder
    /\ ret = NoReturn
    /\ yielded = << >>
    /\ trace = << >>
    /\ closed = {}
    /\ lookup = NoLookup
    /\ hasNS = FALSE
    /\ Encoder = NewEncoder
    /\ exported = NoExport
    /\ mapped = NoMap

NextNs ==
    \/ NextCall
    \/ \E e \in {ErrEOF, ErrSyntax} : ReadError(e)
    \/ \E raw \in NsStartTokens : StartElement(raw)
    \/ \E raw \in NsEndTokens : EndElement(raw)
    \/ \E raw \in NsCharDataTokens : CharData(raw)
    \/ \E raw \in NsOtherTokens : Ignored(raw)
    \/ \E prefix \in LookupPrefixes : Lookup(prefix)

SpecNs == InitNs /\ [][NextNs]_vars

-----------------------------------------------------------------------------
(* Exporter specification: the documents of the namespace specification,   *)
(* with text that holds a line break, parsed under each policy, and the    *)
(* caller's exporter calls on each returned tree                           *)

ExpCharDataTokens == {CharDataToken(<<"t", "\n", "t">>)}

\* matches one and two levels below the root
ExpSelectorPatterns == {<<"/", "a", "/">>, <<"/", "a", "/", "a", "/">>}

InitExp ==
    /\ path \in ExpSelectorPatterns
    /\ selector = PathSelector(path)
    /\ matched = FALSE
    /\ pc = "ready"
    /\ nodes = <<Sentinel>>
    /\ node = 1
    /\ NSFlag \in {NSExpand, NSPrefix, NSStrip}
    /\ MaxDepth = MaxDoc
    /\ MaxChildren = MaxDoc
    /\ MaxTokens = -1
    /\ tokenCount = 0
    /\ decoder = NewDecoder
    /\ ret = NoReturn
    /\ yielded = << >>
    /\ trace = << >>
    /\ closed = {}
    /\ lookup = NoLookup
    /\ hasNS = FALSE
    /\ Encoder = NewEncoder
    /\ exported = NoExport
    /\ mapped = NoMap

NextExp ==
    \/ NextCall
    \/ \E e \in {ErrEOF, ErrSyntax} : ReadError(e)
    \/ \E raw \in NsStartTokens : StartElement(raw)
    \/ \E raw \in NsEndTokens : EndElement(raw)
    \/ \E raw \in ExpCharDataTokens : CharData(raw)
    \/ \E raw \in Comments : Ignored(raw)
    \/ CallStartPath
    \/ CallEncodeNode
    \/ CallEndPath

SpecExp == InitExp /\ [][NextExp]_vars

-----------------------------------------------------------------------------
(* Limits specification: documents of <a>, <b>, text and comments, parsed   *)
(* with and without a token limit under the depth limit DepthCap            *)

OutStartTokens ==
    { StartToken(Name(EMPTY, A), << >>), StartToken(Name(EMPTY, B), << >>) }
OutEndTokens == {EndToken(t.Name) : t \in OutStartTokens}
OutCharDataTokens == {CharDataToken(<<"t">>)}
OutSelectorPatterns == {<<"/", "a", "/">>, B}

InitOut ==
    /\ path \in OutSelectorPatterns
    /\ selector = PathSelector(path)
    /\ matched = FALSE
    /\ pc = "ready"
    /\ nodes = <<Sentinel>>
    /\ node = 1
    /\ NSFlag \in {NSExpand, NSPrefix}
    /\ MaxDepth = DepthCap
    /\ MaxChildren = ChildrenCap
    /\ MaxTokens \in {-1, TokenCap}
    /\ tokenCount = 0
    /\ decoder = NewDecoder
    /\ ret = NoReturn
    /\ yielded = << >>
    /\ trace = << >>
    /\ closed = {}
    /\ lookup = NoLookup
    /\ hasNS = FALSE
    /\ Encoder = NewEncoder
    /\ exported = NoExport
    /\ mapped = NoMap

NextOut ==
    \/ NextCall
    \/ \E e \in {ErrEOF, ErrSyntax} : ReadError(e)
    \/ \E raw \in OutStartTokens : StartElement(raw)
    \/ \E raw \in OutEndTokens : EndElement(raw)
    \/ \E raw \in OutCharDataTokens : CharData(raw)
    \/ \E raw \in Comments : Ignored(raw)

SpecOut == InitOut /\ [][NextOut]_vars

-----------------------------------------------------------------------------
(* Mapper specification: the caller maps every tree Next returns, of       *)
(* documents with attributes, text between elements and a child element    *)
(* named _name                                                             *)

ID == <<"i", "d">>

\* <a id="1">, <b>, <_name> and <x:b xmlns:x="u" x:k="v">
MapStartTokens ==
    { StartToken(Name(EMPTY, A), <<Attr(Name(EMPTY, ID), <<"1">>)>>),
      StartToken(Name(EMPTY, B), << >>),
      StartToken(Name(EMPTY, UNDERNAME), << >>),
      StartToken(Name(X, B), <<Attr(Name(XMLNS, X), <<"u">>),
                               Attr(Name(X, <<"k">>), <<"v">>)>>) }
MapEndTokens == {EndToken(t.Name) : t \in MapStartTokens}
MapCharDataTokens == {CharDataToken(<<"t", " ">>), CharDataToken(<<" ", "u">>)}

InitMap ==
    /\ path = SLASH
    /\ selector = PathSelector(path)
    /\ matched = FALSE
    /\ pc = "ready"
    /\ nodes = <<Sentinel>>
    /\ node = 1
    /\ NSFlag \in {NSExpand, NSPrefix, NSStrip}
    /\ MaxDepth = MaxDoc
    /\ MaxChildren = MaxDoc
    /\ MaxTokens = -1
    /\ tokenCount = 0
    /\ decoder = NewDecoder
    /\ ret = NoReturn
    /\ yielded = << >>
    /\ trace = << >>
    /\ closed = {}
    /\ lookup = NoLookup
    /\ hasNS = FALSE
    /\ Encoder = NewEncoder
    /\ exported = NoExport
    /\ mapped = NoMap

NextMap ==
    \/ NextCall
    \/ \E e \in {ErrEOF, ErrSyntax} : ReadError(e)
    \/ \E raw \in MapStartTokens : StartElement(raw)
    \/ \E raw \in MapEndTokens : EndElement(raw)
    \/ \E raw \in MapCharDataTokens : CharData(raw)
    \/ \E raw \in Comments : Ignored(raw)
    \/ CallFromNode

SpecMap == InitMap /\ [][NextMap]_vars

-----------------------------------------------------------------------------
(* Selector specification: every pattern against every ancestor chain *)

PatChars == {"/", "*", "a", "b", " "}
Patterns == Seqs(PatChars, MaxPatLen)

Locals == {<<"a">>, <<"b">>}
Spaces == {EMPTY, <<"x">>}
ElementNames == {Name(sp, l) : sp \in Spaces, l \in Locals}

\* the sentinel followed by a chain of elements, each the child of the last
ChainHeap(names) ==
    [i \in 1..(Len(names) + 1) |->
        IF i = 1 THEN Sentinel
        ELSE NewNode(StartElementOf(names[i - 1], << >>), NoNamespaces, i - 1)]

\* no selector compiled yet (PathSelector never returns an empty list)
NoSelector == << >>

InitSel ==
    /\ path \in Patterns
    /\ \E names \in Seqs(ElementNames, MaxChain) \ {EMPTY} :
         /\ nodes = ChainHeap(names)
         /\ node = Len(names) + 1
    /\ selector = NoSelector
    /\ matched = FALSE
    /\ pc = "compile"
    /\ NSFlag = NSExpand
    /\ MaxDepth = DepthCap
    /\ MaxChildren = ChildrenCap
    /\ MaxTokens = -1
    /\ tokenCount = 0
    /\ decoder = NewDecoder
    /\ ret = NoReturn
    /\ yielded = << >>
    /\ trace = << >>
    /\ closed = {}
    /\ lookup = NoLookup
    /\ hasNS = FALSE
    /\ Encoder = NewEncoder
    /\ exported = NoExport
    /\ mapped = NoMap

Compile ==
    /\ pc = "compile"
    /\ selector' = PathSelector(path)
    /\ pc' = "match"
    /\ UNCHANGED <<path, matched, nodes, node, parser, exporter, mapped>>

Match ==
    /\ pc = "match"
    /\ matched' = Matches(selector, nodes, node)
    /\ pc' = "matched"
    /\ UNCHANGED <<path, selector, nodes, node, parser, exporter, mapped>>

NextSel == Compile \/ Match

SpecSel == InitSel /\ [][NextSel]_vars

-----------------------------------------------------------------------------
(* Selector claims *)

\* the pattern as PathSelector reads it: trimmed, blank standing for "/"
Pattern(p) == IF TrimSpace(p) = EMPTY THEN SLASH ELSE TrimSpace(p)

\* a pattern with a leading slash (a blank pattern is "/")
LeadingSlash(p) == Head(Pattern(p)) = "/"

\* the segments of a pattern from the root down, without the leading slash
Segments(p) ==
    LET q == Pattern(p)
        parts == Split(IF LeadingSlash(p) THEN Tail(q) ELSE q)
    IN [i \in 1..Len(parts) |-> TrimSpace(parts[i])]

Wildcard(seg) == seg = STAR \/ seg = EMPTY
Satisfies(seg, local) == Wildcard(seg) \/ seg = local

\* the local names from the root element down to n
RECURSIVE LocalPath(_, _)
LocalPath(heap, n) ==
    IF n = NIL \/ heap[n].Parent = NIL THEN << >>
    ELSE Append(LocalPath(heap, heap[n].Parent), heap[n].StartElement.Name.Local)

\* every segment is satisfied by the element at its level, the last segment
\* standing at the node itself and the others at its nearest ancestors
SegmentsSatisfied(segs, names) ==
    /\ Len(names) >= Len(segs)
    /\ \A i \in 1..Len(segs) :
         Satisfies(segs[i], names[Len(names) - Len(segs) + i])

\* C5 as stated: Matches(node) iff the node's depth equals the number of
\* segments and every segment is satisfied along the ancestor chain.
C5_MatchesIffExactDepth ==
    pc = "matched" =>
        (matched <=> /\ Depth(nodes, node) = Len(Segments(path))
                     /\ SegmentsSatisfied(Segments(path), LocalPath(nodes, node)))

\* C5 amended: the equivalence holds for the patterns with a leading slash.
C5_AnchoredMatchesIffExactDepth ==
    (pc = "matched" /\ LeadingSlash(path)) =>
        (matched <=> /\ Depth(nodes, node) = Len(Segments(path))
                     /\ SegmentsSatisfied(Segments(path), LocalPath(nodes, node)))

C5_Witness ==
    /\ pc = "matched" /\ LeadingSlash(path) /\ matched
    /\ Depth(nodes, node) = 2
    /\ \E i \in 1..Len(Segments(path)) : ~Wildcard(Segments(path)[i])

\* C6: a pattern of exact names without a leading slash selects the elements,
\* at any depth, whose own and nearest ancestors' local names are the segments.
C6_UnanchoredMatchesAnyDepth ==
    (/\ pc = "matched" /\ ~LeadingSlash(path)
     /\ \A i \in 1..Len(Segments(path)) : ~Wildcard(Segments(path)[i])) =>
        (matched <=> SegmentsSatisfied(Segments(path), LocalPath(nodes, node)))

C6_Witness ==
    /\ pc = "matched" /\ ~LeadingSlash(path) /\ matched
    /\ Len(Segments(path)) = 2
    /\ Depth(nodes, node) = 3
    /\ \A i \in 1..Len(Segments(path)) : ~Wildcard(Segments(path)[i])

Join(segs) ==
    LET RECURSIVE J(_)
        J(k) == IF k = 1 THEN segs[1] ELSE J(k - 1) \o SLASH \o segs[k]
    IN J(Len(segs))

\* the parts of the pattern as written, leading slash kept as an empty part
Parts(p) ==
    LET parts == Split(Pattern(p))
    IN [i \in 1..Len(parts) |-> TrimSpace(parts[i])]

\* C8: a trailing slash selects what a trailing "/*" selects, and a '*', an
\* empty interior or a trailing empty segment selects exactly what some exact
\* name in its place selects (one level of any element name).
C8_WildcardIsOneLevel ==
    pc = "matched" =>
        /\ (path # EMPTY /\ path[Len(path)] = "/") =>
              matched = Matches(PathSelector(path \o STAR), nodes, node)
        /\ \A k \in 1..Len(Parts(path)) :
              (Parts(path)[k] = STAR \/ (k > 1 /\ Parts(path)[k] = EMPTY)) =>
                 (matched <=>
                    \E l \in Locals :
                       Matches(PathSelector(Join([Parts(path) EXCEPT ![k] = l])),
                               nodes, node))

\* with other namespace identifiers along the same chain
Respace(heap, sps) ==
    [i \in DOMAIN heap |->
        IF i = 1 THEN heap[i]
        ELSE [heap[i] EXCEPT !.StartElement.Name.Space = sps[i - 1]]]

\* C9: Matches depends on the local names of the chain only, not on the
\* namespace identifiers of its elements.
C9_NamespaceNotMatched ==
    pc = "matched" =>
        \A sps \in [1..(Len(nodes) - 1) -> Spaces] :
            Matches(selector, Respace(nodes, sps), node) = matched

C9_Witness ==
    /\ pc = "matched" /\ matched
    /\ \E i, j \in 2..Len(nodes) :
          nodes[i].StartElement.Name.Space # nodes[j].StartElement.Name.Space
    /\ \E i \in 1..Len(selector) : selector[i] \in Locals

-----------------------------------------------------------------------------
(* Parser claims *)

Range(f) == {f[i] : i \in DOMAIN f}

\* the elements of the document read so far: the nodes its start tags made
Elements == {trace[i].made : i \in {j \in 1..Len(trace) :
                 trace[j].tok.kind = "start" /\ trace[j].made # NIL}}

\* the elements a node lies in, the root sentinel left out
RECURSIVE Ancestors(_, _)
Ancestors(heap, n) ==
    IF heap[n].Parent = NIL \/ heap[heap[n].Parent].Parent = NIL THEN {}
    ELSE {heap[n].Parent} \cup Ancestors(heap, heap[n].Parent)

\* the nodes reached from n through the Children lists
RECURSIVE Tree(_, _)
Tree(heap, n) ==
    {n} \cup UNION {Tree(heap, c) : c \in Range(heap[n].Children.list)}

RECURSIVE Sorted(_)
Sorted(S) ==
    IF S = {} THEN << >>
    ELSE LET m == CHOOSE x \in S : \A y \in S : x <= y
         IN <<m>> \o Sorted(S \ {m})

Satisfying == {e \in Elements : Matches(selector, nodes, e)}

\* the input ended cleanly with every element closed
CleanEnd == pc = "ready" /\ ret.err = ErrEOF /\ Elements = closed

\* C1 as stated: at the clean end of a document Next has returned exactly the
\* elements that satisfy the selector, in document order.
C1_YieldsEverySatisfying ==
    CleanEnd => yielded = Sorted(Satisfying)

\* C1 amended: Next has returned, in document order, exactly the closed
\* elements that satisfy the selector and lie in no element that satisfies it.
C1_YieldsOutermostSatisfying ==
    yielded = Sorted({e \in Satisfying \cap closed :
                         Ancestors(nodes, e) \cap Satisfying = {}})

C1_Witness ==
    /\ CleanEnd
    /\ yielded # << >>
    /\ \E e \in Satisfying : Ancestors(nodes, e) \cap Satisfying # {}

NonBlank(data) == \E i \in 1..Len(data) : data[i] \notin WhiteSpace

\* C2: a returned match holds every element and every non-blank text run
\* read inside it, whether they satisfy the selector or not, and no returned
\* match lies inside another.
C2_MatchRetainsEverything ==
    \A k \in 1..Len(yielded) :
        LET r == yielded[k]
        IN /\ \A e \in Elements : r \in Ancestors(nodes, e) => e \in Tree(nodes, r)
           /\ \A i \in 1..Len(trace) :
                 (/\ trace[i].tok.kind = "chardata"
                  /\ NonBlank(trace[i].tok.Data)
                  /\ (trace[i].at = r \/ r \in Ancestors(nodes, trace[i].at))) =>
                     /\ trace[i].made # NIL
                     /\ trace[i].made \in Tree(nodes, r)
           /\ \A j \in 1..Len(yielded) : yielded[j] \notin Ancestors(nodes, r)

C2_Witness ==
    \E k \in 1..Len(yielded) :
        /\ \E e \in Tree(nodes, yielded[k]) \cap Elements :
               /\ e # yielded[k]
               /\ ~Matches(selector, nodes, e)
        /\ \E n \in Tree(nodes, yielded[k]) : decodeText(nodes[n].StartElement).ok

\* the nodes the tokens read directly inside e call for: one per start tag
\* and one per non-blank run of character data, in the order read
ExpectedChildren(e) ==
    LET idx == {i \in 1..Len(trace) :
                   /\ trace[i].at = e
                   /\ \/ trace[i].tok.kind = "start"
                      \/ (trace[i].tok.kind = "chardata" /\ NonBlank(trace[i].tok.Data))}
        order == Sorted(idx)
    IN [j \in 1..Len(order) |-> trace[order[j]]]

\* C3: in a returned tree the Children of each element are, in document
\* order, its child elements and its non-blank text runs.
C3_ChildrenInDocumentOrder ==
    \A k \in 1..Len(yielded) :
        \A e \in {yielded[k]} \cup {d \in Elements : yielded[k] \in Ancestors(nodes, d)} :
            LET kids == nodes[e].Children.list
                want == ExpectedChildren(e)
            IN /\ Len(kids) = Len(want)
               /\ \A j \in 1..Len(kids) :
                     /\ kids[j] = want[j].made
                     /\ decodeText(nodes[kids[j]].StartElement).ok
                           <=> want[j].tok.kind = "chardata"
                     /\ want[j].tok.kind = "start" =>
                           nodes[kids[j]].StartElement.Name.Local = want[j].tok.Name.Local

C3_Witness ==
    \E k \in 1..Len(yielded) :
        LET kids == nodes[yielded[k]].Children.list
        IN /\ Len(kids) = 2
           /\ decodeText(nodes[kids[1]].StartElement).ok
           /\ ~decodeText(nodes[kids[2]].StartElement).ok

\* a run of character data that is all whitespace was read
BlankRead(tr) ==
    /\ tr # << >>
    /\ tr[Len(tr)].tok.kind = "chardata"
    /\ ~NonBlank(tr[Len(tr)].tok.Data)

\* C4: the text leaves of a returned tree are non-empty and start and end
\* with a non-whitespace character, and reading a blank run of character
\* data creates no node, changes no node and returns no children error.
C4_TextLeavesTrimmed ==
    /\ [](\A k \in 1..Len(yielded) : \A n \in Tree(nodes, yielded[k]) :
            LET txt == decodeText(nodes[n].StartElement)
            IN txt.ok => /\ txt.text # EMPTY
                         /\ txt.text[1] \notin WhiteSpace
                         /\ txt.text[Len(txt.text)] \notin WhiteSpace)
    /\ [][(Len(trace') = Len(trace) + 1 /\ BlankRead(trace')) =>
             /\ nodes' = nodes
             /\ ret'.err # ErrChildren]_vars

C4_Witness ==
    /\ \E k \in 1..Len(yielded) :
          \E i \in 1..Len(trace) :
             /\ trace[i].tok.kind = "chardata"
             /\ trace[i].made \in Tree(nodes, yielded[k])
             /\ trace[i].tok.Data[1] \in WhiteSpace
             /\ trace[i].tok.Data[Len(trace[i].tok.Data)] \in WhiteSpace
    /\ \E i \in 1..Len(trace) :
          /\ trace[i].tok.kind = "chardata"
          /\ ~NonBlank(trace[i].tok.Data)
          /\ Cardinality({j \in 1..(i - 1) :
                 trace[j].at = trace[i].at /\ trace[j].made # NIL}) = MaxChildren

\* the elements open after the first k tokens of tr
Open(tr, k) ==
    Cardinality({i \in 1..k : tr[i].tok.kind = "start"})
        - Cardinality({i \in 1..k : tr[i].tok.kind = "end"})

\* a start tag was read, past the token cap, that nests d elements
StartRead(tr, d) ==
    /\ tr # << >>
    /\ tr[Len(tr)].tok.kind = "start"
    /\ Open(tr, Len(tr)) = d

\* C10: counting the root element as depth 1, the depth error is returned
\* for a start tag that nests MaxDepth + 1 elements, inside a match or not,
\* and for no other token.
C10_DepthCap ==
    /\ [](ret.err = ErrDepth => StartRead(trace, MaxDepth + 1))
    /\ [][(/\ Len(trace') = Len(trace) + 1
           /\ ~TokenLimit
           /\ \E d \in 1..(MaxDoc + 1) : StartRead(trace', d) /\ d > MaxDepth) =>
              /\ pc' = "ready"
              /\ ret' = Return(NIL, ErrDepth)]_vars

C10_Witness ==
    /\ ret.err = ErrDepth
    /\ ~nodes[trace[Len(trace)].at].Children.nil
    /\ \E i \in 1..Len(trace) :
          /\ trace[i].tok.kind = "start"
          /\ Open(trace, i) = MaxDepth
          /\ trace[i].made \in closed

\* a child was appended to n in the step
Grew(n) == Len(nodes'[n].Children.list) > Len(nodes[n].Children.list)

\* C11: a token that gives a node its child number MaxChildren or less
\* returns no children error, a token that gives a node a child beyond
\* MaxChildren returns the children error, and the children error is only
\* returned for a token that added such a child.
C11_ChildrenCap ==
    /\ [](ret.err = ErrChildren =>
            /\ trace # << >>
            /\ trace[Len(trace)].made # NIL
            /\ trace[Len(trace)].made \in
                  Range(nodes[trace[Len(trace)].at].Children.list)
            /\ Len(nodes[trace[Len(trace)].at].Children.list) > MaxChildren)
    /\ [][\A n \in DOMAIN nodes :
             Grew(n) =>
                IF Len(nodes'[n].Children.list) > MaxChildren
                THEN pc' = "ready" /\ ret' = Return(NIL, ErrChildren)
                ELSE ret'.err = NoErr]_vars

C11_Witness ==
    /\ ret.err = ErrChildren
    /\ LET kids == nodes[trace[Len(trace)].at].Children.list
       IN /\ Len(kids) = MaxChildren + 1
          /\ \E j \in 1..Len(kids) : decodeText(nodes[kids[j]].StartElement).ok
          /\ \E j \in 1..Len(kids) : kids[j] \in Elements

\* C12: every token read is counted, whatever its kind; with MaxTokens = n,
\* n >= 0, the first n tokens return no token error and token n + 1 returns
\* it; with MaxTokens = -1 no token returns it.
C12_TokenCap ==
    /\ [](/\ tokenCount = Len(trace)
          /\ ret.err = ErrTokens =>
                /\ MaxTokens # -1
                /\ Len(trace) = MaxTokens + 1)
    /\ [][Len(trace') = Len(trace) + 1 =>
             IF MaxTokens >= 0 /\ Len(trace') > MaxTokens
             THEN pc' = "ready" /\ ret' = Return(NIL, ErrTokens)
             ELSE ret'.err # ErrTokens]_vars

C12_Witness ==
    /\ ret.err = ErrTokens
    /\ MaxTokens > 0
    /\ Len(trace) = MaxTokens + 1
    /\ trace[Len(trace)].tok.kind = "comment"
    /\ \E i \in 1..MaxTokens : trace[i].tok.kind = "chardata"

CapErrors == {ErrDepth, ErrChildren, ErrTokens}

\* C13: once Next has returned the error of a cap, the next call returns the
\* error of a failed parser and reads no token.
C13_CapErrorPoisons ==
    [][(pc = "ready" /\ ret.err \in CapErrors) =>
          /\ pc' = "ready"
          /\ ret' = Return(NIL, ErrPoisoned)
          /\ trace' = trace]_vars

\* the errors of the decoder and of pop, and the error for an input that
\* ends inside a match
StreamErrors ==
    {ErrSyntax, ErrClosedBy, ErrClosedBySpace, ErrUnexpectedEnd, UnexpectedEOF}

\* C14: once Next has returned an error of the stream the parser is failed
\* (its node is nil), and every later call returns the error of a failed
\* parser and reads no token.
C14_StreamErrorPoisons ==
    /\ [](ret.err \in StreamErrors \cup {ErrPoisoned} => node = NIL)
    /\ [][(pc = "ready" /\ ret.err \in StreamErrors \cup {ErrPoisoned}) =>
             /\ pc' = "ready"
             /\ ret' = Return(NIL, ErrPoisoned)
             /\ trace' = trace]_vars

\* C15: when the input has ended, Next has returned the clean end of input
\* if no element is open and the unexpected-EOF error if any element is
\* open, recording or not.
C15_EOFWithOpenElement ==
    decoder.err = ErrEOF =>
        ret.err = IF nodes[node].Parent = NIL THEN ErrEOF ELSE UnexpectedEOF

\* an end tag was read in the step; the tag as the decoder delivered it
EndRead == Len(trace') = Len(trace) + 1 /\ trace'[Len(trace')].tok.kind = "end"
EndTag == trace'[Len(trace')].tok.Name

C17_EndTagAtRoot ==
    /\ [](/\ 1 \notin closed
          /\ ret.err = ErrUnexpectedEnd =>
                /\ ret.node = NIL
                /\ trace[Len(trace)].tok.kind = "end"
                /\ trace[Len(trace)].at = 1)
    /\ [][(EndRead /\ ~TokenLimit /\ nodes[node].Parent = NIL) =>
             /\ pc' = "ready"
             /\ ret' = Return(NIL, ErrUnexpectedEnd)
             /\ nodes' = nodes
             /\ yielded' = yielded
             /\ closed' = closed]_vars

C17_Witness ==
    /\ ret.err = ErrUnexpectedEnd
    /\ yielded # << >>
    /\ \E i \in 1..Len(trace) :
          trace[i].made \in closed /\ trace[i].tok.Name = trace[Len(trace)].tok.Name

\* the start tags read so far, each with the node made for it
Starts == {i \in 1..Len(trace) : trace[i].tok.kind = "start" /\ trace[i].made # NIL}

\* the attributes of a start tag that are no xmlns / xmlns:* declarations
Plain(attrs) ==
    SelectSeq(attrs, LAMBDA a : a.Name.Space # XMLNS
                                   /\ ~(a.Name.Space = EMPTY /\ a.Name.Local = XMLNS))

\* C18: under Strip every node (on the spine or retained, element or text)
\* has an empty namespace identifier on its name and on each attribute, no
\* xmlns or xmlns:* attribute and no binding map; an element keeps the other
\* attributes of its start tag, in order.
C18_StripClearsNamespaces ==
    NSFlag = NSStrip =>
        /\ \A n \in DOMAIN nodes :
              LET e == nodes[n].StartElement
              IN /\ e.Name.Space = EMPTY
                 /\ nodes[n].Namespaces.nil
                 /\ \A j \in 1..Len(e.Attr) :
                       /\ e.Attr[j].Name.Space = EMPTY
                       /\ e.Attr[j].Name.Local # XMLNS
        /\ \A i \in Starts :
              LET had == Plain(trace[i].tok.Attr)
                  has == nodes[trace[i].made].StartElement.Attr
              IN /\ Len(has) = Len(had)
                 /\ \A j \in 1..Len(has) :
                       /\ has[j].Name.Local = had[j].Name.Local
                       /\ has[j].Value = had[j].Value

\* under Strip, a retained element whose start tag had a namespace, a
\* declaration and an attribute with a namespace, below a spine element
\* whose start tag had declarations
C18_Witness ==
    /\ NSFlag = NSStrip
    /\ \E i \in Starts :
          /\ trace[i].tok.Name.Space # EMPTY
          /\ Len(Plain(trace[i].tok.Attr)) < Len(trace[i].tok.Attr)
          /\ \E j \in 1..Len(trace[i].tok.Attr) :
                trace[i].tok.Attr[j].Name.Space \notin {EMPTY, XMLNS}
          /\ trace[i].made \in Range(yielded)
          /\ nodes[trace[i].at].Children.nil
          /\ trace[i].at # 1
          /\ \E k \in Starts :
                /\ trace[k].made = trace[i].at
                /\ Len(Plain(trace[k].tok.Attr)) < Len(trace[k].tok.Attr)

\* the prefix-to-URI pairs a start tag declares, and those a node holds
Declared(attrs) ==
    {<<IF attrs[j].Name.Space = XMLNS THEN attrs[j].Name.Local ELSE EMPTY,
       attrs[j].Value>> : j \in {k \in 1..Len(attrs) : attrs[k] \notin Range(Plain(attrs))}}
Bindings(n) == {<<k, nodes[n].Namespaces.map[k]>> : k \in DOMAIN nodes[n].Namespaces.map}

\* C19: under Prefix the binding map of an element holds exactly the pairs
\* its own start tag declares, its attribute list is the start tag's without
\* the declarations, and no step changes the binding map of a node that
\* exists.
C19_PrefixBindingsAreOwn ==
    /\ [](NSFlag = NSPrefix =>
            \A i \in Starts :
               /\ Bindings(trace[i].made) = Declared(trace[i].tok.Attr)
               /\ nodes[trace[i].made].StartElement.Attr = Plain(trace[i].tok.Attr))
    /\ [][\A n \in DOMAIN nodes : nodes'[n].Namespaces = nodes[n].Namespaces]_vars

\* under Prefix, an element that declares nothing below an element that
\* redeclares a prefix its own parent declares, both closed again
C19_Witness ==
    /\ NSFlag = NSPrefix
    /\ \E i, j, k \in Starts :
          /\ trace[j].at = trace[i].made
          /\ trace[k].at = trace[j].made
          /\ Bindings(trace[k].made) = {}
          /\ <<X, W>> \in Bindings(trace[j].made)
          /\ <<X, U>> \in Bindings(trace[i].made)
          /\ {trace[j].made, trace[k].made} \subseteq closed

\* the nodes from n up to the root sentinel, n first
RECURSIVE Chain(_)
Chain(n) == IF n = NIL THEN << >> ELSE <<n>> \o Chain(nodes[n].Parent)

\* what a lookup of prefix at n is to return: the URI bound at the first
\* node of the chain whose map binds the prefix, or not found
Nearest(n, prefix) ==
    LET chain == Chain(n)
        binds == {k \in 1..Len(chain) : \E uri \in {U, W, D} :
                     <<prefix, uri>> \in Bindings(chain[k])}
    IN IF binds = {} THEN [ok |-> FALSE]
       ELSE LET k == CHOOSE m \in binds : \A o \in binds : m <= o
            IN [ok |-> TRUE,
                ns |-> CHOOSE uri \in {U, W, D} : <<prefix, uri>> \in Bindings(chain[k])]

Agrees(found, want) == found.ok = want.ok /\ (want.ok => found.ns = want.ns)

\* C20: when Next has returned a tree, LookupPrefix at each of its nodes
\* returns the URI bound by the nearest node of the chain node, parent,
\* grandparent, ... that binds the prefix, and not found when none does; so
\* did each lookup the caller has made.
C20_LookupNearestBinding ==
    /\ (pc = "ready" /\ ret.node # NIL) =>
          \A n \in DOMAIN nodes, prefix \in LookupPrefixes :
             Agrees(LookupPrefix(nodes, n, prefix), Nearest(n, prefix))
    /\ lookup # NoLookup => Agrees(lookup, Nearest(lookup.at, lookup.prefix))

\* x looked up at an element that declares nothing, below an element that
\* redeclares x and declares a default namespace, whose own parent still sees
\* the first binding of x and no default namespace
C20_Witness ==
    /\ lookup # NoLookup
    /\ lookup.prefix = X /\ lookup.ok /\ lookup.ns = W
    /\ Bindings(lookup.at) = {}
    /\ LET parent == nodes[lookup.at].Parent
           top == nodes[parent].Parent
       IN /\ top # NIL
          /\ LookupPrefix(nodes, top, X) = [ns |-> U, ok |-> TRUE]
          /\ ~LookupPrefix(nodes, top, EMPTY).ok
    /\ LookupPrefix(nodes, lookup.at, EMPTY).ok

-----------------------------------------------------------------------------
(* Exporter claims *)

\* the ancestors of n from the document root down to n's parent
Above(n) ==
    LET chain == Chain(nodes[n].Parent)
    IN Reverse(SubSeq(chain, 1, Len(chain) - 1))

\* n's subtree in document order: each element's start tag, its children in
\* the order of its Children list, its end tag; a text leaf is one token
RECURSIVE Walk(_), WalkAll(_)
Walk(n) ==
    IF decodeText(nodes[n].StartElement).ok THEN <<[kind |-> "chardata", of |-> n]>>
    ELSE <<[kind |-> "start", of |-> n]>> \o WalkAll(nodes[n].Children.list)
         \o <<[kind |-> "end", of |-> n]>>
WalkAll(children) ==
    IF children = << >> THEN << >>
    ELSE Walk(Head(children)) \o WalkAll(Tail(children))

\* the tokens the encoder has written for the current fragment, as kind and node
Written == [i \in DOMAIN Encoder.out |->
              [kind |-> Encoder.out[i].tok.kind, of |-> Encoder.out[i].of]]

\* the values of the attributes a written start tag begins with
Values(attrs, k) == [i \in 1..k |-> attrs[i].Value]

FullExport == exported.call = "EndPath" /\ exported.err = NoErr
AloneExport == exported.call = "EncodeNode" /\ ~exported.path /\ exported.err = NoErr

\* C21: when StartPath(n.Parent), EncodeNode(n), EndPath(n.Parent) have
\* returned without error, the tokens written are the start tags of n's
\* ancestors from the root down to n's parent, each with the attributes of its
\* node, then n's subtree in document order, then the ancestors' end tags from
\* n's parent up to the root; when EncodeNode(n) alone has returned, they are
\* n's subtree only.
C21_ExportNesting ==
    /\ FullExport =>
          LET above == Above(exported.node)
              k == Len(above)
          IN /\ Written = [i \in 1..k |-> [kind |-> "start", of |-> above[i]]]
                          \o Walk(exported.node)
                          \o [i \in 1..k |-> [kind |-> "end", of |-> above[k + 1 - i]]]
             /\ \A i \in 1..k :
                   LET stored == nodes[above[i]].StartElement.Attr
                   IN /\ Len(Encoder.out[i].tok.Attr) >= Len(stored)
                      /\ Values(Encoder.out[i].tok.Attr, Len(stored))
                            = Values(stored, Len(stored))
    /\ AloneExport => Written = Walk(exported.node)

\* a match two levels below the root that holds a child, exported with its path
C21_Witness ==
    /\ FullExport
    /\ Len(Above(exported.node)) = 2
    /\ nodes[exported.node].Children.list # << >>
    /\ nodes[Above(exported.node)[1]].StartElement.Attr # << >>

\* the prefixes node m uses on its element name and its attribute names, the
\* empty prefix and xml aside
Used(m) ==
    LET e == nodes[m].StartElement
    IN ({e.Name.Space} \cup {e.Attr[i].Name.Space : i \in DOMAIN e.Attr})
       \ {EMPTY, XML}

\* C22: under the Prefix policy an export that starts with StartPath writes
\* no start tag for a node that uses a prefix no node of its ancestor chain
\* declares: it fails with the undeclared prefix error instead, also when no
\* node of the exported path declares a namespace.
C22_UndeclaredPrefixFails ==
    (NSFlag = NSPrefix /\ exported.path) =>
       \A i \in DOMAIN Encoder.out :
          Encoder.out[i].tok.kind = "start" =>
             \A p \in Used(Encoder.out[i].of) :
                LookupPrefix(nodes, Encoder.out[i].of, p).ok

\* the prefix an xmlns or xmlns:p attribute of a written tag declares
WrittenPrefix(a) ==
    IF a.Name.Local = XMLNS THEN EMPTY
    ELSE SubSeq(a.Name.Local, Len(XMLNS) + 2, Len(a.Name.Local))

IsWrittenDeclaration(a) ==
    /\ a.Name.Space = EMPTY
    /\ \/ a.Name.Local = XMLNS
       \/ /\ Len(a.Name.Local) > Len(XMLNS) + 1
          /\ SubSeq(a.Name.Local, 1, Len(XMLNS) + 1) = XMLNS \o COLON

\* the prefixes of the model in ascending order
PrefixOrder == <<EMPTY, X, Y>>
Place(p) == CHOOSE i \in DOMAIN PrefixOrder : PrefixOrder[i] = p

\* the bindings of m that m's ancestors do not already provide
OwnNews(m) ==
    {b \in Bindings(m) :
        LET above == Nearest(nodes[m].Parent, b[1])
        IN ~(above.ok /\ above.ns = b[2])}

\* C23: under the Prefix policy a written start tag carries the node's
\* ordinary attributes first, then one xmlns / xmlns:p attribute for each
\* binding of the node that its ancestors do not already provide with the
\* same URI, in ascending order of prefix.
C23_DeclarationsWritten ==
    NSFlag = NSPrefix =>
       \A i \in DOMAIN Encoder.out :
          Encoder.out[i].tok.kind = "start" =>
             LET m == Encoder.out[i].of
                 stored == nodes[m].StartElement.Attr
                 attrs == Encoder.out[i].tok.Attr
                 extra == SubSeq(attrs, Len(stored) + 1, Len(attrs))
             IN /\ Len(attrs) >= Len(stored)
                /\ \A j \in DOMAIN stored :
                      /\ ~IsWrittenDeclaration(attrs[j])
                      /\ attrs[j].Value = stored[j].Value
                /\ \A j \in DOMAIN extra : IsWrittenDeclaration(extra[j])
                /\ {<<WrittenPrefix(extra[j]), extra[j].Value>> : j \in DOMAIN extra}
                      = OwnNews(m)
                /\ \A j \in 1..(Len(extra) - 1) :
                      Place(WrittenPrefix(extra[j])) < Place(WrittenPrefix(extra[j + 1]))

\* one written tag declares two prefixes, another declares one of its node's
\* two bindings and leaves out the one its ancestors provide
C23_Witness ==
    /\ NSFlag = NSPrefix
    /\ \E i, j \in DOMAIN Encoder.out :
          /\ Encoder.out[i].tok.kind = "start" /\ Encoder.out[j].tok.kind = "start"
          /\ Cardinality(OwnNews(Encoder.out[i].of)) = 2
          /\ Cardinality(Bindings(Encoder.out[j].of)) = 2
          /\ Cardinality(OwnNews(Encoder.out[j].of)) = 1

\* the written tags of the current fragment
Tags == {i \in DOMAIN Encoder.out : Encoder.out[i].tok.kind \in {"start", "end"}}

\* the stored element of the node the i-th written token was made for, and of
\* that node's parent
Stored(i) == nodes[Encoder.out[i].of].StartElement
StoredAbove(i) == nodes[nodes[Encoder.out[i].of].Parent].StartElement

\* C24 as claimed: under the Expand and Strip policies every written start and
\* end tag carries the name stored on its node, local name and namespace
\* identifier, and every written start tag the stored attribute list.
C24_TagsPassThrough ==
    NSFlag # NSPrefix =>
       \A i \in Tags :
          /\ Encoder.out[i].tok.Name = Stored(i).Name
          /\ Encoder.out[i].tok.kind = "start" => Encoder.out[i].tok.Attr = Stored(i).Attr

\* C24 amended: under the Expand and Strip policies every written start and
\* end tag carries the local name stored on its node, and the stored
\* namespace identifier unless that equals the namespace identifier stored on
\* the node's parent, in which case the tag carries none; every written start
\* tag carries the stored attribute list unchanged.
C24_TagsPassThroughButParentSpace ==
    NSFlag # NSPrefix =>
       \A i \in Tags :
          /\ Encoder.out[i].tok.Name.Local = Stored(i).Name.Local
          /\ Encoder.out[i].tok.Name.Space =
                IF Stored(i).Name.Space = StoredAbove(i).Name.Space THEN EMPTY
                ELSE Stored(i).Name.Space
          /\ Encoder.out[i].tok.kind = "start" => Encoder.out[i].tok.Attr = Stored(i).Attr

\* under Expand, a tag written without the namespace its node shares with its
\* parent, inside a tag written with its namespace and a qualified attribute
C24_Witness ==
    /\ NSFlag = NSExpand
    /\ \E i, j \in Tags :
          /\ Stored(i).Name.Space # EMPTY /\ Encoder.out[i].tok.Name.Space = EMPTY
          /\ Encoder.out[j].tok.Name.Space # EMPTY
          /\ Encoder.out[j].tok.kind = "start"
          /\ \E k \in DOMAIN Encoder.out[j].tok.Attr :
                Encoder.out[j].tok.Attr[k].Name.Space # EMPTY

\* C25: exporting a tree the parser produced under the Expand or the Strip
\* policy never returns the undeclared prefix error.
C25_UndeclaredOnlyUnderPrefix ==
    NSFlag # NSPrefix => exported.err # ErrUndeclared

\* under Expand, a complete export of a path whose elements and attributes
\* are in namespaces that no Namespaces map records
C25_Witness ==
    /\ NSFlag = NSExpand
    /\ FullExport
    /\ \E i \in Tags :
          /\ Encoder.out[i].tok.kind = "start"
          /\ Stored(i).Name.Space # EMPTY
          /\ \E k \in DOMAIN Stored(i).Attr : Stored(i).Attr[k].Name.Space # EMPTY
          /\ ~LookupPrefix(nodes, Encoder.out[i].of, Stored(i).Name.Space).ok

\* the prefixes a tag read back uses on its element name and on its
\* attributes that are no declarations, and the prefixes it declares
UsedIn(raw) ==
    ({raw.Name.Space}
       \cup {raw.Attr[k].Name.Space : k \in {k \in DOMAIN raw.Attr : ~IsDeclaration(raw.Attr[k])}})
    \ {EMPTY, XML}
DeclaredIn(raw) ==
    {raw.Attr[k].Name.Local : k \in {k \in DOMAIN raw.Attr : raw.Attr[k].Name.Space = XMLNS}}

\* C26: under the Prefix policy, when StartPath(n.Parent), EncodeNode(n),
\* EndPath(n.Parent) have returned without error, every prefix used on an
\* element or attribute name of a written tag, xml aside, is declared by an
\* xmlns:prefix attribute of that tag or of a tag written around it.
C26_FragmentDeclaresItsPrefixes ==
    (NSFlag = NSPrefix /\ FullExport) =>
       \A i \in DOMAIN Encoder.out :
          Encoder.out[i].tok.kind = "start" =>
             \A p \in UsedIn(ReadBack(Encoder.out, i)) :
                \E j \in Enclosing(Encoder.out, i) \cup {i} :
                   p \in DeclaredIn(ReadBack(Encoder.out, j))

\* a fragment in which an inner tag uses, on its name and on an attribute,
\* a prefix declared by the tag around it, and that tag a prefix it declares
C26_Witness ==
    /\ NSFlag = NSPrefix
    /\ FullExport
    /\ \E i \in DOMAIN Encoder.out :
          /\ Encoder.out[i].tok.kind = "start"
          /\ \E p \in UsedIn(ReadBack(Encoder.out, i)) :
                /\ p \notin DeclaredIn(ReadBack(Encoder.out, i))
                /\ \E j \in Enclosing(Encoder.out, i) :
                      p \in DeclaredIn(ReadBack(Encoder.out, j))
    /\ \E i \in DOMAIN Encoder.out :
          /\ Encoder.out[i].tok.kind = "start"
          /\ \E k \in DOMAIN ReadBack(Encoder.out, i).Attr :
                LET a == ReadBack(Encoder.out, i).Attr[k]
                IN ~IsDeclaration(a) /\ a.Name.Space \in DeclaredIn(ReadBack(Encoder.out, i))

\* the parser that produced the exported tree, set up again
Again == Settings(NSFlag, selector, MaxDepth, MaxChildren, MaxTokens)

\* C27: when a match has been exported under the Expand policy with
\* StartPath, EncodeNode and EndPath, parsing the written fragment under
\* Expand with the same selector returns one tree, equal to the match in its
\* element names and namespace identifiers, attributes, text values and
\* children with their order.
C27_ExpandRoundTrip ==
    (NSFlag = NSExpand /\ FullExport) =>
       Parse(ReadFrom(Encoder.out, 1), NewParse, Again).yields
          = <<Value(nodes, exported.node)>>

-----------------------------------------------------------------------------
(* Mapper claims *)

\* the key the children of n are grouped under: the element name, or #text
KeyOf(heap, n, c) ==
    IF decodeText(heap[c].StartElement).ok THEN HASHTEXT
    ELSE ChildKey(heap[c].StartElement.Name, ChainHasNS(heap, n))

\* the children of n under the key k, in document order
Group(heap, n, k) ==
    LET same(c) == KeyOf(heap, n, c) = k
    IN SelectSeq(heap[n].Children.list, same)

\* the map m holds the attributes of n under @name and the children of n
\* grouped by key, each group a list in document order, each child element
\* projected the same way
RECURSIVE Projects(_, _, _)
Projects(heap, m, n) ==
    LET e == heap[n].StartElement
        h == ChainHasNS(heap, n)
        list == heap[n].Children.list
    IN /\ \A i \in DOMAIN e.Attr :
             /\ AttrKey(e.Attr[i], h) \in DOMAIN m
             /\ m[AttrKey(e.Attr[i], h)].kind = "string"
             /\ m[AttrKey(e.Attr[i], h)].val = e.Attr[i].Value
       /\ \A i \in DOMAIN list :
             LET k == KeyOf(heap, n, list[i])
                 group == Group(heap, n, k)
             IN /\ k \in DOMAIN m
                /\ m[k].kind = "[]interface{}"
                /\ Len(m[k].val) = Len(group)
                /\ \A j \in DOMAIN group :
                      LET t == decodeText(heap[group[j]].StartElement)
                          v == m[k].val[j]
                      IN IF t.ok THEN v.kind = "string" /\ v.val = t.text
                         ELSE v.kind = "map" /\ Projects(heap, v.val, group[j])

\* C29: FromNode of a returned tree gives a map that holds the root's local
\* name under _name, each attribute under @name, and the children grouped by
\* key (element name, or #text for text leaves) into lists in document order.
C29_MapProjection ==
    mapped.node # NIL =>
       /\ ~mapped.panic
       /\ UNDERNAME \in DOMAIN mapped.out
       /\ mapped.out[UNDERNAME].kind = "string"
       /\ mapped.out[UNDERNAME].val = nodes[mapped.node].StartElement.Name.Local
       /\ Projects(nodes, mapped.out, mapped.node)

-----------------------------------------------------------------------------
(* Recording along the spine *)

Recording(heap, n) == ~heap[n].Children.nil

\* the node id is in the Children list of its parent
Listed(heap, id) ==
    \E i \in DOMAIN heap[heap[id].Parent].Children.list :
        heap[heap[id].Parent].Children.list[i] = id

\* from the root sentinel down to the open element, no idle element below a
\* recording one
SpineIdleThenRecording ==
    \A i \in DOMAIN Chain(node) :
        LET m == Chain(node)[i]
        IN (m # 1 /\ Recording(nodes, nodes[m].Parent)) => Recording(nodes, m)

\* a start tag that opens an element puts it in its parent's list exactly when
\* the parent was recording, and no later step changes that
ListedAsParentRecorded ==
    /\ (node' # NIL /\ node' # node /\ Len(nodes') = Len(nodes) + 1 /\ node' = Len(nodes')) =>
          (Listed(nodes', node') <=> Recording(nodes, node))
    /\ \A id \in 2..Len(nodes) : Listed(nodes', id) <=> Listed(nodes, id)

\* C30: in every state of a parser that has not failed the open elements are
\* a run of idle elements from the root sentinel followed by a run of
\* recording elements, the sentinel is idle, and an element is in its
\* parent's Children list if and only if the parent was recording when the
\* element's start tag was consumed.
C30_RecordingInheritedDownward ==
    /\ [](~Recording(nodes, 1) /\ SpineIdleThenRecording)
    /\ [][ListedAsParentRecorded]_vars

\* an open recording element that is a listed child of a recording element
\* below an idle root element
C30_Witness ==
    /\ node # NIL /\ Len(Chain(node)) = 4
    /\ Recording(nodes, node) /\ Listed(nodes, node)
    /\ Recording(nodes, nodes[node].Parent) /\ ~Listed(nodes, nodes[node].Parent)
    /\ ~Recording(nodes, nodes[nodes[node].Parent].Parent)

-----------------------------------------------------------------------------
(* Content outside the matches *)

\* the document as far as it has been read
Doc == [i \in DOMAIN trace |-> trace[i].raw]

\* the nodes, with the element of a start tag the token limit refused
Heap ==
    IF trace # << >> /\ trace[Len(trace)].tok.kind = "start" /\ trace[Len(trace)].made = NIL
    THEN Append(nodes, push(NSFlag, trace[Len(trace)].at, trace[Len(trace)].tok))
    ELSE nodes

\* the element the i-th token opened
MadeBy(i) ==
    IF trace[i].made # NIL THEN trace[i].made
    ELSE IF trace[i].tok.kind = "start" THEN Len(Heap)
    ELSE NIL

\* n and its ancestors
RECURSIVE Up(_)
Up(n) == IF n = NIL THEN {} ELSE {n} \cup Up(Heap[n].Parent)

\* m is an element the selector matches
IsMatch(m) ==
    m # 1 /\ ~decodeText(Heap[m].StartElement).ok /\ Matches(selector, Heap, m)

\* the position under the open element at is inside a match
InMatch(at) == \E m \in Up(at) : IsMatch(m)

\* the element id is in no match and is no ancestor of a match
Outside(id) ==
    \A m \in 2..Len(Heap) : (id \in Up(m) \/ m \in Up(id)) => ~IsMatch(m)

\* the last token is an end tag that pop refused: the elements then open are
\* never closed
EndRefused ==
    /\ node = NIL /\ trace # << >> /\ trace[Len(trace)].tok.kind = "end"
    /\ ~(MaxTokens # -1 /\ tokenCount > MaxTokens)
LeftOpen(id) == EndRefused /\ id \in Up(trace[Len(trace)].at)

\* the i-th token lies outside every match: text or a comment read under no
\* matching element, or a tag of an element that is in no match and above
\* no match
Removable(i) ==
    IF trace[i].tok.kind = "start"
    THEN Outside(MadeBy(i)) /\ ~LeftOpen(MadeBy(i))
    ELSE IF trace[i].tok.kind = "end"
    THEN /\ trace[i].at # 1 /\ Outside(trace[i].at)
         /\ ~(EndRefused /\ i = Len(trace))
    ELSE ~InMatch(trace[i].at)

\* the document without the tokens outside the matches, from the i-th on
RECURSIVE Kept(_)
Kept(i) ==
    IF i > Len(trace) THEN << >>
    ELSE (IF Removable(i) THEN << >> ELSE <<trace[i].raw>>) \o Kept(i + 1)

\* two runs return the same trees and the same error
SameResults(p, q) == p.yields = q.yields /\ p.err = q.err

\* the document and the document without its tokens outside the matches give
\* the same results as far as they have been read and, when every element
\* has been closed, to the end of the input
Invisible ==
    LET whole == Run(Doc, NewParse, Again)
        core == Run(Kept(1), NewParse, Again)
    IN /\ SameResults(whole, core)
       /\ (whole.err = NoErr /\ whole.node = 1) =>
             SameResults(Ended(whole, Again), Ended(core, Again))

\* C28 as stated: two documents that differ only by tokens outside every
\* match give the same sequence of results, trees and errors.
C28_OutsideInvisible == Invisible

\* C28: the same, for documents on which the parser reaches neither the
\* token limit nor the depth limit.
C28_OutsideInvisibleBelowLimits ==
    Run(Doc, NewParse, Again).err \notin {ErrTokens, ErrDepth} => Invisible

\* a match has been returned from a document that also holds an element and
\* a text outside it
C28_Witness ==
    /\ Run(Doc, NewParse, Again).yields # << >>
    /\ Run(Doc, NewParse, Again).err = NoErr
    /\ \E i \in DOMAIN trace : Removable(i) /\ trace[i].tok.kind = "start"
    /\ \E i \in DOMAIN trace : Removable(i) /\ trace[i].tok.kind = "chardata"

-----------------------------------------------------------------------------
(* What Next returns *)

\* the step is the end of a call of Next that returns a node
ReturnsNode == pc = "loop" /\ ret'.node # NIL

\* the step consumes an end tag that closes the open element
ClosesOpen ==
    /\ Len(trace') = Len(trace) + 1
    /\ trace'[Len(trace')].tok.kind = "end"
    /\ node # NIL /\ node' = nodes[node].Parent

\* the open element is a retention root: recording under an idle parent
AtRetentionRoot ==
    node # NIL /\ node # 1 /\ Recording(nodes, node) /\ ~Recording(nodes, nodes[node].Parent)

\* the elements below n
Below(n) ==
    {m \in 2..Len(nodes) : m # n /\ n \in {Chain(m)[i] : i \in DOMAIN Chain(m)}
                           /\ ~decodeText(nodes[m].StartElement).ok}

\* a node is returned exactly by the end tag of a retention root, whose
\* elements below have all been closed
ReturnsAtRetentionRootEnd ==
    /\ ReturnsNode => /\ ClosesOpen /\ AtRetentionRoot
                      /\ ret'.node = node
                      /\ Below(node) \subseteq closed
    /\ (ClosesOpen /\ AtRetentionRoot) => ReturnsNode
    /\ (ClosesOpen /\ ~AtRetentionRoot) => ret'.node = NIL

\* no node has been returned twice
ReturnedOnce ==
    \A i, j \in DOMAIN yielded : yielded[i] = yielded[j] => i = j

\* C31: Next returns a node only on consuming the end tag of a retention
\* root; each retention root is returned exactly once, after every element
\* below it has been closed, and the end tag of an element below a retention
\* root or of an idle element never returns a node.
C31_ReturnsOnlyRetentionRoots ==
    /\ [][ReturnsAtRetentionRootEnd]_vars
    /\ []ReturnedOnce

\* a retention root has been returned, after the end tag of an element below
\* it returned nothing
C31_Witness ==
    /\ pc = "ready" /\ ret.node # NIL
    /\ Below(ret.node) # {}

-----------------------------------------------------------------------------
(* What the parser holds on to *)

\* the open elements and the root sentinel
Spine == {Chain(node)[i] : i \in DOMAIN Chain(node)}

\* the nodes below n by its Children list
RECURSIVE Subtree(_)
Subtree(n) ==
    {nodes[n].Children.list[i] : i \in DOMAIN nodes[n].Children.list}
       \cup UNION {Subtree(nodes[n].Children.list[i]) : i \in DOMAIN nodes[n].Children.list}

\* the nodes reachable from the parser: from p.node along Parent and Children
Reachable == Spine \cup UNION {Subtree(n) : n \in Spine}

\* the open retention roots
OpenRoots ==
    {n \in Spine : n # 1 /\ Recording(nodes, n) /\ ~Recording(nodes, nodes[n].Parent)}

\* the node id is in some Children list
ListedAnywhere(id) ==
    \E n \in DOMAIN nodes : \E i \in DOMAIN nodes[n].Children.list :
        nodes[n].Children.list[i] = id

\* C32: an element opened under an idle parent is in no Children list; a
\* closed idle element and a returned match are not reachable from the
\* parser's current node; the reachable nodes are the open spine plus the
\* subtree of at most one open retention root.
C32_BoundedRetention ==
    /\ \A id \in 2..Len(nodes) :
          ~Recording(nodes, nodes[id].Parent) => ~ListedAnywhere(id)
    /\ \A m \in closed :
          (~Recording(nodes, m) \/ \E i \in DOMAIN yielded : yielded[i] = m) =>
             m \notin Reachable
    /\ Cardinality(OpenRoots) <= 1
    /\ Reachable = Spine \cup UNION {Subtree(r) : r \in OpenRoots}

\* an idle element has been closed and a match returned while an element is
\* open
C32_Witness ==
    /\ yielded # << >>
    /\ \E m \in closed : ~Recording(nodes, m)
    /\ node # NIL /\ node # 1

-----------------------------------------------------------------------------
(* Ignored tokens *)

\* the step consumes a token of the kinds ks
Consumes(ks) ==
    Len(trace') = Len(trace) + 1 /\ trace'[Len(trace')].tok.kind \in ks

\* the step is refused by the token limit
OverTokenLimit == MaxTokens # -1 /\ tokenCount' > MaxTokens

\* the parser but for its token counter: current node, nodes with their
\* Parent links and Children lists
ParserKept == node' = node /\ nodes' = nodes /\ tokenCount' = tokenCount + 1

\* C33 as stated: character data read while the open element is idle, and
\* a comment, processing instruction or directive read in any state, change
\* nothing of the parser but the token counter.
C33_IgnoredTokensChangeNothing ==
    [][((Consumes({"chardata"}) /\ node # NIL /\ ~Recording(nodes, node))
           \/ Consumes(IgnoredKinds)) => ParserKept]_vars

\* C33: the same, unless the token is the one that exceeds MaxTokens.
C33_IgnoredTokensChangeNothingBelowLimit ==
    [][(((Consumes({"chardata"}) /\ node # NIL /\ ~Recording(nodes, node))
            \/ Consumes(IgnoredKinds)) /\ ~OverTokenLimit) => ParserKept]_vars

\* text has been read under an open idle element and a comment under an open
\* recording element, without an error
C33_Witness ==
    /\ node # NIL /\ pc = "loop"
    /\ \E i \in DOMAIN trace :
          trace[i].tok.kind = "chardata" /\ trace[i].at # 1 /\ ~Recording(nodes, trace[i].at)
    /\ \E i \in DOMAIN trace :
          trace[i].tok.kind = "comment" /\ Recording(nodes, trace[i].at)

-----------------------------------------------------------------------------
(* The failed state *)

\* a step taken with the current node cleared: no token is read, the counter
\* stays, the node stays cleared and what Next returns is the entry error
StaysFailed ==
    node = NIL =>
       /\ node' = NIL
       /\ tokenCount' = tokenCount /\ trace' = trace /\ decoder' = decoder
       /\ pc' = "ready"
       /\ ret' # ret => ret' = Return(NIL, ErrPoisoned)

\* C34: once the parser's current node has been cleared every later call of
\* Next returns the 'will no longer consume tokens' error, reads no token and
\* leaves the token counter unchanged, and the parser stays in that state.
C34_FailedAbsorbing ==
    /\ [](node = NIL => pc = "ready")
    /\ [][StaysFailed]_vars

\* Next has been called on a failed parser and has returned the entry error
C34_Witness ==
    node = NIL /\ ret = Return(NIL, ErrPoisoned) /\ tokenCount > 0

-----------------------------------------------------------------------------
(* Errors and matches under construction *)

\* Next returns an error at the i-th token of the document, and at none
\* before it
FirstErrorAt(i) ==
    /\ Run(SubSeq(Doc, 1, i), NewParse, Again).err # NoErr
    /\ Run(SubSeq(Doc, 1, i - 1), NewParse, Again).err = NoErr

\* the match r was under construction at the i-th token: its start tag had
\* been read and its end tag had not
UnderConstructionAt(r, i) ==
    /\ \E j \in 1..i : trace[j].made = r
    /\ \A j \in 1..i : ~(trace[j].tok.kind = "end" /\ trace[j].at = r)

\* C35: whenever Next returns an error it returns no node, and a match that
\* was under construction when Next returned an error is not returned by any
\* later call.
C35_NoPartialResults ==
    /\ ret.err # NoErr => ret.node = NIL
    /\ (pc = "ready" /\ ret.node # NIL) =>
          \A i \in DOMAIN trace :
              FirstErrorAt(i) => ~UnderConstructionAt(ret.node, i)

-----------------------------------------------------------------------------
(* The chain above a returned match *)

\* the start tags among the first k tokens whose element is still open,
\* outermost first, as positions in the history
RECURSIVE OpenStarts(_)
OpenStarts(k) ==
    IF k = 0 THEN << >>
    ELSE IF trace[k].tok.kind = "start" THEN Append(OpenStarts(k - 1), k)
    ELSE IF trace[k].tok.kind = "end"
    THEN SubSeq(OpenStarts(k - 1), 1, Len(OpenStarts(k - 1)) - 1)
    ELSE OpenStarts(k - 1)

\* C36: when Next returns a match, the Parent links from it visit exactly
\* the elements still open, innermost first, each holding the name,
\* attributes and bindings stored from its start tag and each idle, and end
\* at the root sentinel; the match's Depth() is the number of open elements
\* plus one.
C36_ChainIsOpenElements ==
    (pc = "ready" /\ ret.node # NIL) =>
       LET open == OpenStarts(Len(trace))
           chain == Chain(nodes[ret.node].Parent)
       IN /\ Len(chain) = Len(open) + 1
          /\ chain[Len(chain)] = 1
          /\ nodes[1].Parent = NIL
          /\ nodes[1].StartElement.Name = Name(EMPTY, EMPTY)
          /\ \A j \in 1..Len(open) :
                LET ev == trace[open[Len(open) + 1 - j]]
                    stored == push(NSFlag, ev.at, ev.tok)
                IN /\ chain[j] = ev.made
                   /\ nodes[chain[j]].StartElement = stored.StartElement
                   /\ nodes[chain[j]].Namespaces = stored.Namespaces
                   /\ ~Recording(nodes, chain[j])
          /\ Depth(nodes, ret.node) = Len(open) + 1

\* a match has been returned under two open elements, and a node of its chain
\* declares bindings
C36_Witness ==
    /\ pc = "ready" /\ ret.node # NIL
    /\ Len(OpenStarts(Len(trace))) = 2
    /\ \E i \in DOMAIN Chain(ret.node) : ~nodes[Chain(ret.node)[i]].Namespaces.nil


-----------------------------------------------------------------------------
(* Exporter history                                                        *)

\* what EncodeNode writes and returns for n on an exporter just created
Fresh(n) == EncodeNode(nodes, Running(FALSE, NewEncoder), n)

\* C37: what EncodeNode writes for a node, and the error it returns, are
\* those of an exporter that encoded nothing before: they do not depend on
\* the nodes the same exporter encoded earlier
C37_EncodeNodeHistoryFree ==
    (exported.call = "EncodeNode" /\ ~exported.path) =>
       /\ Encoder.out = Fresh(exported.node).out
       /\ exported.err = Fresh(exported.node).err
       /\ exported.prefix = Fresh(exported.node).prefix
       /\ exported.at = Fresh(exported.node).at


-----------------------------------------------------------------------------
(* The namespace policies                                                  *)

\* a returned tree without its namespace identifiers: local names, the
\* attributes' local names and values, the text and the children in order
RECURSIVE Shape(_)
Shape(v) ==
    [Local |-> v.StartElement.Name.Local,
     Attr |-> [i \in DOMAIN v.StartElement.Attr |->
                 [Local |-> v.StartElement.Attr[i].Name.Local,
                  Value |-> v.StartElement.Attr[i].Value]],
     Children |-> [i \in DOMAIN v.Children |-> Shape(v.Children[i])]]
Shapes(p) == [i \in DOMAIN p.yields |-> Shape(p.yields[i])]

\* the tokens read so far parsed under the policy flag, all else as it is
Under(flag) ==
    Run(Doc, NewParse, Settings(flag, selector, MaxDepth, MaxChildren, MaxTokens))

\* C38: when the tokens read so far parse without error under Expand, Strip
\* and Prefix, the three policies have returned the same number of trees at
\* this point of the document, and the trees are the same once their
\* namespace identifiers are left out
C38_SameSelectionUnderEveryPolicy ==
    LET e == Under(NSExpand)
        s == Under(NSStrip)
        p == Under(NSPrefix)
    IN (e.err = NoErr /\ s.err = NoErr /\ p.err = NoErr) =>
          /\ Shapes(e) = Shapes(s)
          /\ Shapes(s) = Shapes(p)

\* a tree with a child has been returned under all three policies, and the
\* three trees differ in their namespace identifiers
C38_Witness ==
    LET e == Under(NSExpand)
        s == Under(NSStrip)
        p == Under(NSPrefix)
    IN /\ e.err = NoErr /\ s.err = NoErr /\ p.err = NoErr
       /\ e.yields # << >>
       /\ e.yields[1].Children # << >>
       /\ e.yields[1] # s.yields[1]
       /\ s.yields[1] # p.yields[1]
       /\ e.yields[1] # p.yields[1]


-----------------------------------------------------------------------------
(* The mapper on every returned tree                                       *)

\* C39: FromNode returns a map for every tree the parser returns: the call
\* never fails, whatever the local names of the tree's child elements are
C39_FromNodeTotal ==
    (mapped.node # NIL /\ mapped.node = ret.node) => ~mapped.panic

=============================================================================
